---- MODULE Spec2Model ----
(***************************************************************************)
(* Recipe ingestion of anikait1/tastebase.                                 *)
(*                                                                         *)
(* The repository holds three revisions of the ingestion entry point, all  *)
(* named processRecipeFromSource:                                          *)
(*   "stream" - the async generator of src/unnamed/part_001 driving        *)
(*              processRecipePipeline (src/recipe/job.ts:153-180);         *)
(*   "job"    - src/recipe/service.ts:35-102, which creates source, job    *)
(*              and job_steps rows (job.ts:311-362) and runs               *)
(*              processRecipeJob (job.ts:232-270) from setImmediate;       *)
(*   "proc"   - src/unnamed/part_003:43-193, which creates source and job  *)
(*              rows and runs youtubeShortRecipeProcessor                  *)
(*              (job.ts:443-554) from setImmediate, then commits the       *)
(*              recipe.                                                    *)
(* A behaviour runs one revision (variable version) against one database.  *)
(***************************************************************************)
EXTENDS Integers, Sequences, FiniteSets, TLC

(* ---------------------------------------------------------------- bounds *)
NumRequests == 2
Requests == 1..NumRequests

\* committed recipes in the database a search runs against
MaxRecipes == 3

\* entries of an ingredient list in the model output
MaxIngredients == 3

\* video ids held by the sources a lookup runs against
NumVideoIds == 2

(* ------------------------------------------------------------- constants *)
Versions == {"stream", "job", "proc"}

\* src/recipe/schema.ts:41 - the only accepted source type
SourceTypes == {"youtube-shorts"}

\* request bodies: data.url, already split as `new URL(url)` splits it
\* (hostname, pathname.split("/")); a body without a parsable url has
\* hostname "" and no path parts
Urls ==
  { [hostname |-> "www.youtube.com", parts |-> <<"", "shorts", "a">>],
    [hostname |-> "www.youtube.com", parts |-> <<"", "shorts", "b">>],
    [hostname |-> "www.youtube.com", parts |-> <<"", "shorts", "">>],
    [hostname |-> "www.youtube.com", parts |-> <<"", "watch">>],
    [hostname |-> "youtu.be",        parts |-> <<"", "shorts", "a">>],
    [hostname |-> "",                parts |-> <<>>] }

None == "none"
NoId == 0

(* ------------------------------------------------------------- variables *)
VARIABLES
  version,        \* which revision of the entry point is deployed
  sources,        \* recipe_sources rows
  jobs,           \* recipe_jobs rows
  steps,          \* job_steps rows
  recipes,        \* recipes rows
  embeddings,     \* embeddings rows
  content_items,  \* content_items rows
  seq,            \* serial sequences of the tables
  req,            \* per request: position and locals of the handler and
                  \* of its background task
  search,         \* the rows returned by the last call of searchRecipes
  parseRun,       \* an ingredient list on its way from the model output
  jobQuery,       \* a call of GET /recipe-job/:job-id and what it has read
  lookup,         \* a call of getRecipeByExternalId and what it returned
  llmCall         \* a call of parseRecipe: the model's output and the outcome
                  \* through RecipeParsedSchema into the recipes row

vars == <<version, sources, jobs, steps, recipes, embeddings, content_items,
          seq, req, search, parseRun, jobQuery,
          lookup, llmCall>>

\* what the ingestion handlers never touch
aux == <<search, parseRun, jobQuery, lookup, llmCall>>

tables == <<sources, jobs, steps, recipes, embeddings, content_items>>

(* ------------------------------------------------------ input validation *)
\* z.url() fails on a body without a parsable url; superRefine rejects
\* every url that is not https://www.youtube.com/shorts/{id}
youtubeShortsRecipeSchema(url) ==
  IF url.hostname = "" THEN [success |-> FALSE, id |-> None]
  ELSE IF \/ url.hostname # "www.youtube.com"
          \/ Len(url.parts) # 3
          \/ url.parts[2] # "shorts"
          \/ url.parts[3] = ""
       THEN [success |-> FALSE, id |-> None]
       ELSE [success |-> TRUE, id |-> url.parts[3]]

\* service.ts:20-28 - the "job" and "proc" revisions prefix the video id,
\* the "stream" revision stores the video id itself
\* a string `${prefix}${id}` is kept as its two parts
ExternalId(prefix, id) == [prefix |-> prefix, id |-> id]
NoExternalId == ExternalId("", "")

getExternalIdBySourceType(sourceType, sourceId) ==
  IF sourceType = "youtube-shorts" THEN ExternalId("yt_short_", sourceId)
  ELSE NoExternalId

(* --------------------------------------------------------------- queries *)
\* the lookup on recipe_sources alone, without the join on recipes
getSourceByExternalId(externalId, type) ==
  LET hits == { s \in sources : s.external_id = externalId }
  IN  IF hits = {} THEN NoId
      ELSE (CHOOSE s \in hits : \A o \in hits : s.id <= o.id).id

\* inner join recipes x recipe_sources on recipe_source_id = id and
\* external_id = externalId; the type parameter is accepted and not used
getRecipeByExternalId(externalId, type) ==
  LET hits == { r \in recipes :
                  \E s \in sources : /\ r.recipe_source_id = s.id
                                     /\ s.external_id = externalId }
  IN  IF hits = {} THEN NoId
      ELSE (CHOOSE r \in hits : \A o \in hits : r.id <= o.id).id

\* the unique constraint of recipe_sources: (external_id, type) in the
\* schema of the "stream" revision, external_id alone in the older schema
UniqueViolationNever(ver, externalId, type) == FALSE

UniqueViolation(ver, externalId, type) ==
  IF ver = "stream"
  THEN \E s \in sources : s.external_id = externalId /\ s.type = type
  ELSE \E s \in sources : s.external_id = externalId

\* no ingredient list under way
NoParsed == [pc |-> "none", raw |-> <<>>, data |-> <<>>, stored |-> <<>>]

\* no call of getRecipeJob yet
NoJob ==
  [id |-> NoId, recipe_source_id |-> NoId, status |-> None,
   started_at |-> FALSE, completed_at |-> FALSE, error_message |-> None,
   current_step_index |-> -1, steps |-> <<>>]
\* `found` FALSE: getRecipeJob returned null
NoResult ==
  [found |-> FALSE, id |-> NoId, status |-> None, started_at |-> FALSE,
   completed_at |-> FALSE, error_message |-> None, steps |-> <<>>]
\* `seen`: the job's step rows as they were when the job row was read
NoQuery ==
  [pc |-> "idle", jobId |-> NoId, job |-> NoJob, seen |-> {},
   result |-> NoResult]

\* no call of getRecipeByExternalId on its own yet
NoLookup ==
  [called |-> FALSE, externalId |-> NoExternalId, type |-> None,
   recipeId |-> NoId]

\* no call of parseRecipe on its own yet
NoError == [kind |-> "absent", reason |-> ""]
NoObject ==
  [name |-> [null |-> TRUE, value |-> <<>>],
   instructions |-> [null |-> TRUE, value |-> ""],
   error |-> NoError]
NoOutcome == [kind |-> "none", message |-> "", name |-> <<>>]
NoLlmCall ==
  [pc |-> "idle", object |-> NoObject, outcome |-> NoOutcome,
   event |-> None, next |-> None]

\* no call of searchRecipes yet
NoSearch == [called |-> FALSE, rows |-> <<>>]

(* ------------------------------------------------------------------ init *)
NoCtx == [transcript |-> FALSE, recipe |-> FALSE, embeddings |-> FALSE]
NoTxn == [source |-> NoId, job |-> NoId, steps |-> {}, recipe |-> NoId,
          embedding |-> NoId]

InitReq ==
  [ pc         |-> "start",
    externalId |-> NoExternalId,
    sourceId   |-> NoId,
    jobId      |-> NoId,
    ctx        |-> NoCtx,
    txn        |-> NoTxn,
    events     |-> <<>>,
    result     |-> None,
    error      |-> None,
    late       |-> FALSE,
    stuck      |-> FALSE,
    recipeId   |-> NoId,
    bg         |-> "idle",
    stepIdx    |-> 0,
    failedIdx  |-> 0,
    jobSteps   |-> <<>>,
    pipeline   |-> <<>> ]

Init ==
  /\ version \in Versions
  /\ sources = {}
  /\ jobs = {}
  /\ steps = {}
  /\ recipes = {}
  /\ embeddings = {}
  /\ content_items = {}
  /\ seq = [sources |-> 0, jobs |-> 0, steps |-> 0, recipes |-> 0,
            embeddings |-> 0, content_items |-> 0]
  /\ req = [r \in Requests |-> InitReq]
  /\ search = NoSearch
  /\ parseRun = NoParsed
  /\ jobQuery = NoQuery
  /\ lookup = NoLookup
  /\ llmCall = NoLlmCall

\* requests are numbered in their order of arrival at the handler
Arrives(r) ==
  /\ req[r].pc = "start"
  /\ \A o \in Requests : o < r => req[o].pc # "start"

\* a rejection that nothing in the handler catches: the request ends with
\* the framework's error response
Throw(locals, r, error) ==
  [locals EXCEPT ![r].result = "unhandledError", ![r].error = error,
                 ![r].pc = "thrown"]

\* whether a source row for the request's key exists when it arrives
SourceExists(externalId) == \E s \in sources : s.external_id = externalId

\* whether, when the request arrives, the source of its key exists and the
\* pipeline of the registration that created it has ended (failed,
\* crashed or abandoned) with no recipe committed
Stuck(externalId) ==
  \E o \in Requests :
    /\ req[o].externalId = externalId
    /\ req[o].sourceId # NoId
    /\ \A rc \in recipes : rc.recipe_source_id # req[o].sourceId
    /\ IF version = "stream"
       THEN req[o].pc \in {"done", "thrown", "abandoned"}
       ELSE req[o].bg \in {"finished", "caught"}

\* an event object: its type tag, the recipe id it carries (RecipeSaved,
\* RecipeAlreadyExists) and the cause of an error event
Event(type, recipeId, cause) ==
  [type |-> type, recipeId |-> recipeId, cause |-> cause]

\* src/recipe/type.ts:40-50
RecipePipelineEventTypes ==
  {"transcriptGenerated", "recipeGenerated", "recipeSaved"}

RecipePipelineErrors ==
  {"transcriptGenerationFailed", "recipeGenerationFailed", "recipeSavingFailed"}

(* ============================================== "stream" revision ====== *)
\* part_001:60-74 - safeParse; on failure yield the validation event
StreamValidate(r) ==
  /\ version = "stream"
  /\ Arrives(r)
  /\ \E url \in Urls :
       LET parsed == youtubeShortsRecipeSchema(url)
       IN  IF ~parsed.success
           THEN req' = [req EXCEPT
                  ![r].events = Append(@, Event("recipeInputValidationFailed", NoId, None)),
                  ![r].result = "recipeInputValidationFailed",
                  ![r].pc = "done"]
           ELSE req' = [req EXCEPT
                  ![r].externalId = ExternalId("", parsed.id),
                  ![r].late = SourceExists(ExternalId("", parsed.id)),
                  ![r].stuck = Stuck(ExternalId("", parsed.id)),
                  ![r].pc = "lookup"]
  /\ UNCHANGED <<version, aux, tables, seq>>

\* the existing-recipe check without its `return`: the event is yielded
\* and the registration goes on
StreamLookupNoReturn(r) ==
  /\ version = "stream"
  /\ req[r].pc = "lookup"
  /\ LET existing == getRecipeByExternalId(req[r].externalId, "youtube-shorts")
     IN  IF existing # NoId
         THEN req' = [req EXCEPT
                ![r].events = Append(@, Event("recipeAlreadyExists", existing, None)),
                ![r].result = "recipeAlreadyExists",
                ![r].recipeId = existing,
                ![r].pc = "videoInfo"]
         ELSE req' = [req EXCEPT ![r].pc = "videoInfo"]
  /\ UNCHANGED <<version, aux, tables, seq>>

\* part_001:76-88 - existing-recipe check
StreamLookup(r) ==
  /\ version = "stream"
  /\ req[r].pc = "lookup"
  /\ LET existing == getRecipeByExternalId(req[r].externalId, "youtube-shorts")
     IN  IF existing # NoId
         THEN req' = [req EXCEPT
                ![r].events = Append(@, Event("recipeAlreadyExists", existing, None)),
                ![r].result = "recipeAlreadyExists",
                ![r].recipeId = existing,
                ![r].pc = "done"]
         ELSE req' = [req EXCEPT ![r].pc = "videoInfo"]
  /\ UNCHANGED <<version, aux, tables, seq>>

\* the existence check without its `return`: the event is yielded and the
\* source is created all the same
StreamVideoInfoNoReturn(r) ==
  /\ version = "stream"
  /\ req[r].pc = "videoInfo"
  /\ \E ok \in BOOLEAN :
       IF ok
       THEN req' = [req EXCEPT ![r].pc = "createSource"]
       ELSE req' = [req EXCEPT
              ![r].events = Append(@, Event("videoUnavailable", NoId, None)),
              ![r].result = "videoUnavailable",
              ![r].pc = "createSource"]
  /\ UNCHANGED <<version, aux, tables, seq>>

\* part_001:90-97 - YoutubeService.getVideoInfo, a rejection becomes null
StreamVideoInfo(r) ==
  /\ version = "stream"
  /\ req[r].pc = "videoInfo"
  /\ \E ok \in BOOLEAN :
       IF ok
       THEN req' = [req EXCEPT ![r].pc = "createSource"]
       ELSE req' = [req EXCEPT
              ![r].events = Append(@, Event("videoUnavailable", NoId, None)),
              ![r].result = "videoUnavailable",
              ![r].pc = "done"]
  /\ UNCHANGED <<version, aux, tables, seq>>

\* createRecipeSource as an upsert: on a conflict the existing source row
\* is taken and the pipeline runs for it
StreamCreateSourceUpsert(r) ==
  /\ version = "stream"
  /\ req[r].pc = "createSource"
  /\ seq' = [seq EXCEPT !.sources = @ + 1]
  /\ IF UniqueViolation(version, req[r].externalId, "youtube-shorts")
     THEN /\ req' = [req EXCEPT
                 ![r].sourceId =
                    (CHOOSE s \in sources :
                       /\ s.external_id = req[r].externalId
                       /\ s.type = "youtube-shorts").id,
                 ![r].pc = "transcript"]
          /\ UNCHANGED sources
     ELSE /\ sources' = sources \cup
                 {[id |-> seq'.sources, external_id |-> req[r].externalId,
                   type |-> "youtube-shorts"]}
          /\ req' = [req EXCEPT ![r].sourceId = seq'.sources,
                                ![r].pc = "transcript"]
  /\ UNCHANGED <<version, aux, jobs, steps, recipes, embeddings, content_items>>

\* part_001:99-103, 188-207 - createRecipeSource: one autocommit insert;
\* a unique violation rejects, nothing catches it and the generator throws
StreamCreateSource(r) ==
  /\ version = "stream"
  /\ req[r].pc = "createSource"
  /\ seq' = [seq EXCEPT !.sources = @ + 1]
  /\ IF UniqueViolation(version, req[r].externalId, "youtube-shorts")
     THEN /\ req' = Throw(req, r, "uniqueViolation")
          /\ UNCHANGED sources
     ELSE /\ sources' = sources \cup
                 {[id |-> seq'.sources, external_id |-> req[r].externalId,
                   type |-> "youtube-shorts"]}
          /\ req' = [req EXCEPT ![r].sourceId = seq'.sources,
                                ![r].pc = "transcript"]
  /\ UNCHANGED <<version, aux, jobs, steps, recipes, embeddings, content_items>>

(* ------------------------------------------------- database write helpers *)
\* txn.insert(recipe_schema) inside db.transaction: the row is pending in
\* the transaction and not in the committed table
InsertRecipeNoTxn(recipeId, sourceId) ==
  [committed |-> recipes \cup {[id |-> recipeId, recipe_source_id |-> sourceId]},
   pending   |-> recipeId]

InsertRecipeTxn(recipeId, sourceId) ==
  [committed |-> recipes, pending |-> recipeId]

RecipeRow(recipeId, sourceId) == [id |-> recipeId, recipe_source_id |-> sourceId]
EmbeddingRow(embeddingId, recipeId) ==
  [id |-> embeddingId, recipe_id |-> recipeId, type |-> "text"]

(* ------------------------------ processRecipePipeline, job.ts:153-180 --- *)
\* the loop without its early exit: after an error event the next step
\* runs
YieldNoEarlyExit(locals, r, event, nextPc) ==
  [locals EXCEPT ![r].events = Append(@, event),
              ![r].result = IF event.type \in RecipePipelineErrors
                            THEN event.type
                            ELSE IF nextPc = "done" THEN event.type ELSE @,
              ![r].recipeId = IF event.type = "recipeSaved"
                              THEN event.recipeId ELSE @,
              ![r].pc = nextPc]

\* the loop with its error check before the yield: an error event ends the
\* run without being yielded
YieldAfterErrorCheck(locals, r, event, nextPc) ==
  [locals EXCEPT ![r].events = IF event.type \in RecipePipelineErrors
                               THEN @ ELSE Append(@, event),
                 ![r].result = IF event.type \in RecipePipelineErrors
                               THEN event.type
                               ELSE IF nextPc = "done" THEN event.type ELSE @,
                 ![r].recipeId = IF event.type = "recipeSaved"
                                 THEN event.recipeId ELSE @,
                 ![r].pc = IF event.type \in RecipePipelineErrors
                           THEN "done" ELSE nextPc]

\* the loop of job.ts:171-179: yield the step's event, stop on an error
\* event, otherwise go on with the next step of RecipePipeline
Yield(locals, r, event, nextPc) ==
  [locals EXCEPT ![r].events = Append(@, event),
              ![r].result = IF event.type \in RecipePipelineErrors
                            THEN event.type
                            ELSE IF nextPc = "done" THEN event.type ELSE @,
              ![r].recipeId = IF event.type = "recipeSaved"
                              THEN event.recipeId ELSE @,
              ![r].pc = IF event.type \in RecipePipelineErrors
                        THEN "done" ELSE nextPc]

\* transcriptStep, job.ts:52-70 - YoutubeService.getTranscript
TranscriptStep(r) ==
  /\ version = "stream"
  /\ req[r].pc = "transcript"
  /\ \E ok \in BOOLEAN :
       IF ok
       THEN req' = [req EXCEPT ![r].ctx.transcript = TRUE,
                               ![r].pc = "transcriptPersist"]
       ELSE req' = Yield(req, r, Event("transcriptGenerationFailed", NoId,
                                  "transcript"), "recipe")
  /\ UNCHANGED <<version, aux, tables, seq>>

\* the content_items insert without its `.catch`: a rejected insert makes
\* the step fail
TranscriptPersistUncaught(r) ==
  /\ version = "stream"
  /\ req[r].pc = "transcriptPersist"
  /\ seq' = [seq EXCEPT !.content_items = @ + 1]
  /\ \E ok \in BOOLEAN :
       IF ok
       THEN /\ content_items' = content_items \cup
                 {[id |-> seq'.content_items,
                   recipe_source_id |-> req[r].sourceId,
                   pipeline_step |-> "transcriptGenerated"]}
            /\ req' = Yield(req, r, Event("transcriptGenerated", NoId, None),
                            "recipe")
       ELSE /\ UNCHANGED content_items
            /\ req' = Yield(req, r, Event("transcriptGenerationFailed", NoId,
                                          "persist"), "recipe")
  /\ UNCHANGED <<version, aux, sources, jobs, steps, recipes, embeddings>>

\* transcriptStep, job.ts:72-83 - content_items insert, a failure is logged
\* and swallowed; then the step returns its event
TranscriptPersist(r) ==
  /\ version = "stream"
  /\ req[r].pc = "transcriptPersist"
  /\ seq' = [seq EXCEPT !.content_items = @ + 1]
  /\ \E ok \in BOOLEAN :
       IF ok
       THEN content_items' = content_items \cup
              {[id |-> seq'.content_items,
                recipe_source_id |-> req[r].sourceId,
                pipeline_step |-> "transcriptGenerated"]}
       ELSE UNCHANGED content_items
  /\ req' = Yield(req, r, Event("transcriptGenerated", NoId, None), "recipe")
  /\ UNCHANGED <<version, aux, sources, jobs, steps, recipes, embeddings>>

\* outcomes of LlmService.parseRecipe (src/llm/service.ts:10-34): a recipe,
\* a model output with an error reason, an output failing
\* RecipeParsedSchema, or a rejected generateObject call
ParseOutcomes == {"ok", "errorReason", "schemaInvalid", "invocationError"}

\* recipeStep, job.ts:87-106
RecipeStep(r) ==
  /\ version = "stream"
  /\ req[r].pc = "recipe"
  /\ \E out \in ParseOutcomes :
       IF out = "ok"
       THEN req' = Yield([req EXCEPT ![r].ctx.recipe = TRUE], r,
                         Event("recipeGenerated", NoId, None), "save")
       ELSE req' = Yield(req, r, Event("recipeGenerationFailed", NoId, out), "save")
  /\ UNCHANGED <<version, aux, tables, seq>>

\* saveStep, job.ts:117-119 - ensureDefined(ctx.recipe) throws out of the
\* generator; otherwise LlmService.generateRecipeEmbedding, whose rejection
\* is caught at job.ts:142 as RecipeSavingFailed
SaveStepEmbedding(r) ==
  /\ version = "stream"
  /\ req[r].pc = "save"
  /\ IF ~req[r].ctx.recipe
     THEN req' = Throw(req, r, "assertion")
     ELSE \E ok \in BOOLEAN :
            IF ok
            THEN req' = [req EXCEPT ![r].ctx.embeddings = TRUE,
                                    ![r].pc = "saveInsertRecipe"]
            ELSE req' = Yield(req, r, Event("recipeSavingFailed", NoId,
                                            "embedding"), "done")
  /\ UNCHANGED <<version, aux, tables, seq>>

\* saveStep, job.ts:120-131 - first statement of the transaction
SaveStepInsertRecipe(r) ==
  /\ version = "stream"
  /\ req[r].pc = "saveInsertRecipe"
  /\ seq' = [seq EXCEPT !.recipes = @ + 1]
  /\ \E ok \in BOOLEAN :
       IF ok
       THEN LET w == InsertRecipeTxn(seq'.recipes, req[r].sourceId)
            IN  /\ recipes' = w.committed
                /\ req' = [req EXCEPT ![r].txn.recipe = w.pending,
                                      ![r].pc = "saveInsertEmbedding"]
       ELSE /\ UNCHANGED recipes
            /\ req' = Yield(req, r, Event("recipeSavingFailed", NoId,
                                          "insertRecipe"), "done")
  /\ UNCHANGED <<version, aux, sources, jobs, steps, embeddings, content_items>>

\* saveStep, job.ts:133-137 - second statement of the transaction; a
\* failure rolls the transaction back
SaveStepInsertEmbedding(r) ==
  /\ version = "stream"
  /\ req[r].pc = "saveInsertEmbedding"
  /\ seq' = [seq EXCEPT !.embeddings = @ + 1]
  /\ \E ok \in BOOLEAN :
       IF ok
       THEN req' = [req EXCEPT ![r].txn.embedding = seq'.embeddings,
                               ![r].pc = "saveCommit"]
       ELSE req' = Yield([req EXCEPT ![r].txn = NoTxn], r,
                         Event("recipeSavingFailed", NoId, "insertEmbedding"),
                         "done")
  /\ UNCHANGED <<version, aux, tables>>

\* the save step taking the callback's RecipeSaved as the outcome whether
\* or not the transaction commits
SaveStepCommitUnchecked(r) ==
  /\ version = "stream"
  /\ req[r].pc = "saveCommit"
  /\ \E ok \in BOOLEAN :
       /\ IF ok
          THEN /\ recipes' = recipes \cup
                    {RecipeRow(req[r].txn.recipe, req[r].sourceId)}
               /\ embeddings' = embeddings \cup
                    {EmbeddingRow(req[r].txn.embedding, req[r].txn.recipe)}
          ELSE UNCHANGED <<recipes, embeddings>>
       /\ req' = Yield([req EXCEPT ![r].txn = NoTxn], r,
                       Event("recipeSaved", req[r].txn.recipe, None), "done")
  /\ UNCHANGED <<version, aux, sources, jobs, steps, content_items, seq>>

\* saveStep, job.ts:139-147 - the callback returns RecipeSaved and
\* db.transaction commits both rows, or the commit fails and neither row
\* becomes visible
SaveStepCommit(r) ==
  /\ version = "stream"
  /\ req[r].pc = "saveCommit"
  /\ \E ok \in BOOLEAN :
       IF ok
       THEN /\ recipes' = recipes \cup
                 {RecipeRow(req[r].txn.recipe, req[r].sourceId)}
            /\ embeddings' = embeddings \cup
                 {EmbeddingRow(req[r].txn.embedding, req[r].txn.recipe)}
            /\ req' = Yield([req EXCEPT ![r].txn = NoTxn], r,
                            Event("recipeSaved", req[r].txn.recipe, None),
                            "done")
       ELSE /\ UNCHANGED <<recipes, embeddings>>
            /\ req' = Yield([req EXCEPT ![r].txn = NoTxn], r,
                            Event("recipeSavingFailed", NoId, "commit"),
                            "done")
  /\ UNCHANGED <<version, aux, sources, jobs, steps, content_items, seq>>

\* part_006:84-201 - the handler is an async generator that pulls
\* processRecipeFromSource with `for await` and yields each event to the
\* response stream; the pipeline generator runs only when it is pulled.
\* A client that goes away after an event is no longer pulled from: the
\* pipeline stays suspended at its `yield` (job.ts:174) or is closed by
\* return(), and in both cases runs no further step
Disconnect(r) ==
  /\ version = "stream"
  /\ req[r].pc \in {"recipe", "save"}
  /\ req' = [req EXCEPT ![r].pc = "abandoned"]
  /\ UNCHANGED <<version, aux, tables, seq>>

StreamNext ==
  \E r \in Requests :
    \/ Disconnect(r)
    \/ StreamValidate(r)
    \/ StreamLookup(r)
    \/ StreamVideoInfo(r)
    \/ StreamCreateSource(r)
    \/ TranscriptStep(r)
    \/ TranscriptPersist(r)
    \/ RecipeStep(r)
    \/ SaveStepEmbedding(r)
    \/ SaveStepInsertRecipe(r)
    \/ SaveStepInsertEmbedding(r)
    \/ SaveStepCommit(r)

(* ===================================== "job" and "proc" revisions ====== *)
\* the declared steps with their order counted from one
JOB_STEPS_ORDER_FROM_ONE ==
  << [type |-> "extract_instructions", order |-> 1],
     [type |-> "parse_recipe",         order |-> 2],
     [type |-> "create_embeddings",    order |-> 3] >>

\* src/recipe/job.ts:203-207
YOUTUBE_SHORT_RECIPE_JOB_STEPS ==
  << [type |-> "extract_instructions", order |-> 0],
     [type |-> "parse_recipe",         order |-> 1],
     [type |-> "create_embeddings",    order |-> 2] >>

\* job.ts:462-466 - the pipeline array of youtubeShortRecipeProcessor; a
\* step is "skipped" (neither data nor error), "success" or "failure"
NewPipeline == <<"skipped", "skipped", "skipped">>

JobRow(jobId, sourceId) ==
  [id |-> jobId, recipe_source_id |-> sourceId, status |-> "created",
   started_at |-> FALSE, completed_at |-> FALSE, error_message |-> None,
   current_step_index |-> -1, steps |-> <<>>]

StepRow(stepId, jobId, step) ==
  [id |-> stepId, job_id |-> jobId, type |-> step.type, order |-> step.order,
   status |-> "created", started_at |-> FALSE, error_message |-> None]

\* the validation branch without its `return`: the result is set and the
\* registration goes on to the lookup and the inserts
JobValidateNoReturn(r) ==
  /\ version \in {"job", "proc"}
  /\ Arrives(r)
  /\ \E url \in Urls :
       LET parsedSource == youtubeShortsRecipeSchema(url)
       IN  IF ~parsedSource.success
           THEN req' = [req EXCEPT ![r].result = "validation-error",
                                   ![r].pc = "lookup"]
           ELSE LET externalId ==
                      getExternalIdBySourceType("youtube-shorts", parsedSource.id)
                IN  req' = [req EXCEPT
                            ![r].externalId = externalId,
                       ![r].late = SourceExists(externalId),
                       ![r].stuck = Stuck(externalId),
                       ![r].pc = "lookup"]
  /\ UNCHANGED <<version, aux, tables, seq>>

\* service.ts:47-63 (part_003:55-71) - safeParse, then the external id
JobValidate(r) ==
  /\ version \in {"job", "proc"}
  /\ Arrives(r)
  /\ \E url \in Urls :
       LET parsedSource == youtubeShortsRecipeSchema(url)
       IN  IF ~parsedSource.success
           THEN req' = [req EXCEPT ![r].result = "validation-error",
                                   ![r].pc = "done"]
           ELSE LET externalId ==
                      getExternalIdBySourceType("youtube-shorts", parsedSource.id)
                IN  req' = [req EXCEPT
                            ![r].externalId = externalId,
                       ![r].late = SourceExists(externalId),
                       ![r].stuck = Stuck(externalId),
                       ![r].pc = "lookup"]
  /\ UNCHANGED <<version, aux, tables, seq>>

\* service.ts:64-72 (part_003:72-100) - the result carries no recipe id
JobLookup(r) ==
  /\ version \in {"job", "proc"}
  /\ req[r].pc = "lookup"
  /\ IF getRecipeByExternalId(req[r].externalId, "youtube-shorts") # NoId
     THEN req' = [req EXCEPT ![r].result = "recipe-already-exists-error",
                             ![r].pc = "done"]
     ELSE req' = [req EXCEPT ![r].pc = "txnSource"]
  /\ UNCHANGED <<version, aux, tables, seq>>

\* a row inserted by a transaction that is still open: a second insert of
\* the same key waits for that transaction to end
PendingSource(r, externalId) ==
  \E o \in Requests \ {r} :
    req[o].txn.source # NoId /\ req[o].externalId = externalId

\* createRecipeJob, job.ts:316-325 (part_003:103-113) - insert the source
\* inside the transaction; a unique violation or a failed insert rejects
\* the transaction, nothing catches it and the request fails
CreateJobInsertSource(r) ==
  /\ version \in {"job", "proc"}
  /\ req[r].pc = "txnSource"
  /\ ~PendingSource(r, req[r].externalId)
  /\ seq' = [seq EXCEPT !.sources = @ + 1]
  /\ \E ok \in BOOLEAN :
       IF ok /\ ~UniqueViolation(version, req[r].externalId, "youtube-shorts")
       THEN req' = [req EXCEPT ![r].txn.source = seq'.sources,
                               ![r].pc = "txnJob"]
       ELSE req' = Throw(req, r,
                         IF UniqueViolation(version, req[r].externalId,
                                            "youtube-shorts")
                         THEN "uniqueViolation" ELSE "dbError")
  /\ UNCHANGED <<version, aux, tables>>

\* createRecipeJob, job.ts:327-334 (part_003:115-123)
CreateJobInsertJob(r) ==
  /\ version \in {"job", "proc"}
  /\ req[r].pc = "txnJob"
  /\ seq' = [seq EXCEPT !.jobs = @ + 1]
  /\ \E ok \in BOOLEAN :
       IF ok
       THEN req' = [req EXCEPT
              ![r].txn.job = seq'.jobs,
              ![r].pc = IF version = "job" THEN "txnSteps" ELSE "txnCommit"]
       ELSE req' = Throw([req EXCEPT ![r].txn = NoTxn], r, "dbError")
  /\ UNCHANGED <<version, aux, tables>>

\* the three inserts issued on db and not on the transaction: a rejected
\* step insert leaves the source and job rows behind
CreateJobInsertStepsNoRollback(r) ==
  /\ version = "job"
  /\ req[r].pc = "txnSteps"
  /\ seq' = [seq EXCEPT !.steps = @ + Len(YOUTUBE_SHORT_RECIPE_JOB_STEPS)]
  /\ \E ok \in BOOLEAN :
       IF ok
       THEN /\ req' = [req EXCEPT
                 ![r].txn.steps =
                    { StepRow(seq.steps + i, req[r].txn.job,
                              YOUTUBE_SHORT_RECIPE_JOB_STEPS[i]) :
                        i \in DOMAIN YOUTUBE_SHORT_RECIPE_JOB_STEPS },
                 ![r].pc = "txnCommit"]
            /\ UNCHANGED <<sources, jobs>>
       ELSE /\ sources' = sources \cup
                 {[id |-> req[r].txn.source,
                   external_id |-> req[r].externalId,
                   type |-> "youtube-shorts"]}
            /\ jobs' = jobs \cup {JobRow(req[r].txn.job, req[r].txn.source)}
            /\ req' = Throw([req EXCEPT ![r].txn = NoTxn], r, "stepInsertFailed")
  /\ UNCHANGED <<version, aux, steps, recipes, embeddings, content_items>>

\* createRecipeJob, job.ts:336-345 - one insert of all step rows
CreateJobInsertSteps(r) ==
  /\ version = "job"
  /\ req[r].pc = "txnSteps"
  /\ seq' = [seq EXCEPT !.steps = @ + Len(YOUTUBE_SHORT_RECIPE_JOB_STEPS)]
  /\ \E ok \in BOOLEAN :
       IF ok
       THEN req' = [req EXCEPT
              ![r].txn.steps =
                 { StepRow(seq.steps + i, req[r].txn.job,
                           YOUTUBE_SHORT_RECIPE_JOB_STEPS[i]) :
                     i \in DOMAIN YOUTUBE_SHORT_RECIPE_JOB_STEPS },
              ![r].pc = "txnCommit"]
       ELSE req' = Throw([req EXCEPT ![r].txn = NoTxn], r, "stepInsertFailed")
  /\ UNCHANGED <<version, aux, tables>>

\* createRecipeJob, job.ts:347-361 (part_003:123-125) - commit, then
\* service.ts:83-99 (part_003:134-190): setImmediate queues runRecipeJob
\* and the handler returns job-created
CreateJobCommit(r) ==
  /\ version \in {"job", "proc"}
  /\ req[r].pc = "txnCommit"
  /\ \E ok \in BOOLEAN :
       IF ok
       THEN /\ sources' = sources \cup
                 {[id |-> req[r].txn.source,
                   external_id |-> req[r].externalId,
                   type |-> "youtube-shorts"]}
            /\ jobs' = jobs \cup {JobRow(req[r].txn.job, req[r].txn.source)}
            /\ steps' = steps \cup req[r].txn.steps
            /\ req' = [req EXCEPT ![r].sourceId = req[r].txn.source,
                                  ![r].jobId = req[r].txn.job,
                                  ![r].txn = NoTxn,
                                  ![r].result = "job-created",
                                  ![r].bg = "queued",
                                  ![r].pc = "done"]
       ELSE /\ UNCHANGED <<sources, jobs, steps>>
            /\ req' = Throw([req EXCEPT ![r].txn = NoTxn], r, "dbError")
  /\ UNCHANGED <<version, aux, recipes, embeddings, content_items, seq>>

JobFrontNext ==
  \E r \in Requests :
    \/ JobValidate(r)
    \/ JobLookup(r)
    \/ CreateJobInsertSource(r)
    \/ CreateJobInsertJob(r)
    \/ CreateJobInsertSteps(r)
    \/ CreateJobCommit(r)

(* ------------------------------------ processRecipeJob, job.ts:232-270 --- *)
\* an update without a where clause: every row matches
WhereAnyJob(j, jobId) == TRUE

\* .where(eq(recipe_job_schema.id, jobId)), job.ts:246, 459, 477, 502,
\* 524, 549
WhereJobId(j, jobId) == j.id = jobId

\* db.update(recipe_job_schema).set(..).where(..)
\* set maps each row to the row with the new column values
UpdateJob(jobId, set) ==
  { IF WhereJobId(j, jobId) THEN set[j] ELSE j : j \in jobs }

SetProcessing(j) == [j EXCEPT !.status = "processing", !.started_at = TRUE]

\* markJobStepAsProcessing, job.ts:221-226 - the update has no where
\* clause: jobId and stepId are not used and every job_steps row is set
markJobStepAsProcessing(jobId, stepId) ==
  { [s EXCEPT !.status = "processing", !.started_at = TRUE] : s \in steps }

\* getRecipeJob, job.ts:284-293 - step rows of the job ordered by `order`
RECURSIVE OrderedSteps(_)
OrderedSteps(rows) ==
  IF rows = {} THEN <<>>
  ELSE LET first == CHOOSE s \in rows : \A o \in rows : s.order <= o.order
       IN  <<[id |-> first.id, type |-> first.type]>>
             \o OrderedSteps(rows \ {first})

\* a rejected await inside runRecipeJob's try block: service.ts:91-96
\* (part_003:182-187) logs it and the task ends
Caught(locals, r) == [locals EXCEPT ![r].bg = "caught"]

\* job.ts:239-246
ProcessJobMarkProcessing(r) ==
  /\ version = "job"
  /\ req[r].bg = "queued"
  /\ \E ok \in BOOLEAN :
       IF ok
       THEN /\ jobs' = UpdateJob(req[r].jobId, [j \in jobs |-> SetProcessing(j)])
            /\ req' = [req EXCEPT ![r].bg = "getJob"]
       ELSE /\ UNCHANGED jobs
            /\ req' = Caught(req, r)
  /\ UNCHANGED <<version, aux, sources, steps, recipes, embeddings, content_items,
                 seq>>

\* job.ts:248-249 - getRecipeJob and ensureDefined
ProcessJobGetJob(r) ==
  /\ version = "job"
  /\ req[r].bg = "getJob"
  /\ \E ok \in BOOLEAN :
       LET found == \E j \in jobs : j.id = req[r].jobId
           rows  == OrderedSteps({ s \in steps : s.job_id = req[r].jobId })
       IN  IF ok /\ found
           THEN req' = [req EXCEPT
                  ![r].jobSteps = rows,
                  ![r].stepIdx = 1,
                  ![r].bg = IF rows = <<>> THEN "finished" ELSE "markStep"]
           ELSE req' = Caught(req, r)
  /\ UNCHANGED <<version, aux, tables, seq>>

\* after the try block of job.ts:259-267: next iteration or end of loop
NextStep(locals, r) ==
  IF locals[r].stepIdx < Len(locals[r].jobSteps)
  THEN [locals EXCEPT ![r].stepIdx = @ + 1, ![r].bg = "markStep"]
  ELSE [locals EXCEPT ![r].bg = "finished"]

\* job.ts:251-264 - mark the step processing; the switch has a case only
\* for extract_instructions, every other step type does nothing
ProcessJobMarkStep(r) ==
  /\ version = "job"
  /\ req[r].bg = "markStep"
  /\ \E ok \in BOOLEAN :
       IF ok
       THEN /\ steps' = markJobStepAsProcessing(
                          req[r].jobId, req[r].jobSteps[req[r].stepIdx].id)
            /\ req' = IF req[r].jobSteps[req[r].stepIdx].type
                           = "extract_instructions"
                      THEN [req EXCEPT ![r].bg = "runStep"]
                      ELSE NextStep(req, r)
       ELSE /\ UNCHANGED steps
            /\ req' = Caught(req, r)
  /\ UNCHANGED <<version, aux, sources, jobs, recipes, embeddings, content_items,
                 seq>>

\* job.ts:259-267 - YoutubeService.getTranscript; the transcript is a
\* block-local constant and a rejection is swallowed by the empty catch,
\* so both outcomes continue with the next step
ProcessJobRunStep(r) ==
  /\ version = "job"
  /\ req[r].bg = "runStep"
  /\ \E ok \in BOOLEAN :
       req' = NextStep([req EXCEPT ![r].failedIdx =
                          IF ok THEN @ ELSE req[r].stepIdx], r)
  /\ UNCHANGED <<version, aux, tables, seq>>

ProcessJobNext ==
  \E r \in Requests :
    \/ ProcessJobMarkProcessing(r)
    \/ ProcessJobGetJob(r)
    \/ ProcessJobMarkStep(r)
    \/ ProcessJobRunStep(r)

(* ------------------------- youtubeShortRecipeProcessor, job.ts:443-554 --- *)
\* job.ts:490, 513, 536 - the messages passed to markFailure
FailureMessages ==
  << "Unable to generate the transcript for the provided video",
     "Unable to parse the recipe instructions",
     "Unable to generate data required to make the recipe searchable" >>

\* runStep, job.ts:396-432 - "value": fn resolved with a truthy value;
\* "empty": getTranscript resolved with "" (no segment text), which the
\* caller's `!transcript` treats as a failure; "throw": fn rejected
RunStepOutcomes(stepIdx) ==
  IF stepIdx = 1 THEN {"value", "empty", "throw"} ELSE {"value", "throw"}

\* job.ts:451-466
ProcessorStart(r) ==
  /\ version = "proc"
  /\ req[r].bg = "queued"
  /\ \E ok \in BOOLEAN :
       IF ok
       THEN /\ jobs' = UpdateJob(req[r].jobId,
                 [j \in jobs |-> [SetProcessing(j) EXCEPT !.current_step_index = 0]])
            /\ req' = [req EXCEPT ![r].pipeline = NewPipeline,
                                  ![r].stepIdx = 1,
                                  ![r].bg = "runStep"]
       ELSE /\ UNCHANGED jobs
            /\ req' = Caught(req, r)
  /\ UNCHANGED <<version, aux, sources, steps, recipes, embeddings, content_items,
                 seq>>

\* job.ts:482-488, 506-512, 528-534 - runStep sets step.data or step.error
ProcessorRunStep(r) ==
  /\ version = "proc"
  /\ req[r].bg = "runStep"
  /\ \E out \in RunStepOutcomes(req[r].stepIdx) :
       req' = [req EXCEPT
         ![r].pipeline[req[r].stepIdx] =
            IF out = "throw" THEN "failure" ELSE "success",
         ![r].failedIdx = IF out = "value" THEN @ ELSE req[r].stepIdx,
         ![r].ctx = IF out # "value" THEN @
                    ELSE IF req[r].stepIdx = 1 THEN [@ EXCEPT !.transcript = TRUE]
                    ELSE IF req[r].stepIdx = 2 THEN [@ EXCEPT !.recipe = TRUE]
                    ELSE [@ EXCEPT !.embeddings = TRUE],
         ![r].bg = IF out = "value" THEN "advance" ELSE "markFailure"]
  /\ UNCHANGED <<version, aux, tables, seq>>

\* markFailure followed by another attempt of the failed step in place of
\* `return pipeline`
markFailureRetry(r) ==
  /\ version = "proc"
  /\ req[r].bg = "markFailure"
  /\ \E ok \in BOOLEAN :
       IF ok
       THEN /\ jobs' = UpdateJob(req[r].jobId,
                 [j \in jobs |-> [j EXCEPT
                   !.steps = req[r].pipeline,
                   !.error_message = FailureMessages[req[r].stepIdx]]])
            /\ req' = [req EXCEPT ![r].bg = "runStep"]
       ELSE /\ UNCHANGED jobs
            /\ req' = Caught(req, r)
  /\ UNCHANGED <<version, aux, sources, steps, recipes, embeddings, content_items,
                 seq>>

\* markFailure, job.ts:468-480, then `return pipeline`; back in
\* runRecipeJob (part_003:142-155) the missing data is logged
markFailure(r) ==
  /\ version = "proc"
  /\ req[r].bg = "markFailure"
  /\ \E ok \in BOOLEAN :
       IF ok
       THEN /\ jobs' = UpdateJob(req[r].jobId,
                 [j \in jobs |-> [j EXCEPT
                   !.status = "failed",
                   !.steps = req[r].pipeline,
                   !.error_message = FailureMessages[req[r].stepIdx]]])
            /\ req' = [req EXCEPT ![r].bg = "finished"]
       ELSE /\ UNCHANGED jobs
            /\ req' = Caught(req, r)
  /\ UNCHANGED <<version, aux, sources, steps, recipes, embeddings, content_items,
                 seq>>

\* job.ts:495-502, 517-524 - store the pipeline and the next step index;
\* job.ts:541-549 - after the last step set status "success"
ProcessorAdvance(r) ==
  /\ version = "proc"
  /\ req[r].bg = "advance"
  /\ \E ok \in BOOLEAN :
       IF ~ok
       THEN /\ UNCHANGED jobs
            /\ req' = Caught(req, r)
       ELSE IF req[r].stepIdx < Len(req[r].pipeline)
       THEN /\ jobs' = UpdateJob(req[r].jobId,
                 [j \in jobs |-> [j EXCEPT !.steps = req[r].pipeline,
                                      !.current_step_index = req[r].stepIdx]])
            /\ req' = [req EXCEPT ![r].stepIdx = @ + 1, ![r].bg = "runStep"]
       ELSE /\ jobs' = UpdateJob(req[r].jobId,
                 [j \in jobs |-> [j EXCEPT !.status = "success",
                                      !.steps = req[r].pipeline,
                                      !.completed_at = TRUE]])
            /\ req' = [req EXCEPT ![r].bg = "txnRecipe"]
  /\ UNCHANGED <<version, aux, sources, steps, recipes, embeddings, content_items,
                 seq>>

(* ------------------------- runRecipeJob createRecipe, part_003:157-181 --- *)
\* part_003:158-169 - first statement of the transaction
CreateRecipeInsertRecipe(r) ==
  /\ version = "proc"
  /\ req[r].bg = "txnRecipe"
  /\ seq' = [seq EXCEPT !.recipes = @ + 1]
  /\ \E ok \in BOOLEAN :
       IF ok
       THEN LET w == InsertRecipeTxn(seq'.recipes, req[r].sourceId)
            IN  /\ recipes' = w.committed
                /\ req' = [req EXCEPT ![r].txn.recipe = w.pending,
                                      ![r].bg = "txnEmbedding"]
       ELSE /\ UNCHANGED recipes
            /\ req' = Caught([req EXCEPT ![r].error = "recipeTxn"], r)
  /\ UNCHANGED <<version, aux, sources, jobs, steps, embeddings, content_items>>

\* part_003:171-175
CreateRecipeInsertEmbedding(r) ==
  /\ version = "proc"
  /\ req[r].bg = "txnEmbedding"
  /\ seq' = [seq EXCEPT !.embeddings = @ + 1]
  /\ \E ok \in BOOLEAN :
       IF ok
       THEN req' = [req EXCEPT ![r].txn.embedding = seq'.embeddings,
                               ![r].bg = "txnCommit"]
       ELSE req' = Caught([req EXCEPT ![r].txn = NoTxn,
                                      ![r].error = "recipeTxn"], r)
  /\ UNCHANGED <<version, aux, tables>>

\* part_003:181 - commit of the transaction
CreateRecipeCommit(r) ==
  /\ version = "proc"
  /\ req[r].bg = "txnCommit"
  /\ \E ok \in BOOLEAN :
       IF ok
       THEN /\ recipes' = recipes \cup
                 {RecipeRow(req[r].txn.recipe, req[r].sourceId)}
            /\ embeddings' = embeddings \cup
                 {EmbeddingRow(req[r].txn.embedding, req[r].txn.recipe)}
            /\ req' = [req EXCEPT ![r].txn = NoTxn,
                                  ![r].recipeId = req[r].txn.recipe,
                                  ![r].bg = "finished"]
       ELSE /\ UNCHANGED <<recipes, embeddings>>
            /\ req' = Caught([req EXCEPT ![r].txn = NoTxn,
                                         ![r].error = "recipeTxn"], r)
  /\ UNCHANGED <<version, aux, sources, jobs, steps, content_items, seq>>

ProcessorNext ==
  \E r \in Requests :
    \/ ProcessorStart(r)
    \/ ProcessorRunStep(r)
    \/ markFailure(r)
    \/ ProcessorAdvance(r)
    \/ CreateRecipeInsertRecipe(r)
    \/ CreateRecipeInsertEmbedding(r)
    \/ CreateRecipeCommit(r)

(* ============================================ createRecipe, part_006 ==== *)
\* the class of the error a failure event carries as its cause:
\* parseRecipe throws `new Error(reason)` for an output with an error
\* reason (llm/service.ts:21-23) and `new Error("Schema validation
\* failed: ..")` for an output failing RecipeParsedSchema (25-31); a
\* rejected generateObject, getTranscript, embed or database call rejects
\* with the library's own error. Nothing constructs LlmRejectedError
\* (utils.ts:63)
CauseClass(cause) ==
  IF cause \in {"errorReason", "schemaInvalid"} THEN "Error"
  ELSE "LibraryError"

\* part_006:96-201 - the response the handler builds for an event: status
\* 200 stands for an event passed on to the response stream
createRecipe(event) ==
  IF event.type = "recipeAlreadyExists"
  THEN [status |-> 409, title |-> "Recipe for the given source already exists",
        detail |-> None]
  ELSE IF event.type = "recipeInputValidationFailed"
  THEN [status |-> 422, title |-> "Invalid recipe input", detail |-> None]
  ELSE IF event.type = "videoUnavailable"
  THEN [status |-> 422, title |-> "Video unavailable",
        detail |-> "The referenced YouTube video is unavailable or invalid."]
  ELSE IF event.type = "videoTranscriptUnavailable"
  THEN [status |-> 422, title |-> "Video transcript not available",
        detail |-> "This video has no captions/transcript available."]
  ELSE IF event.type \in RecipePipelineErrors
  THEN IF CauseClass(event.cause) = "LlmRejectedError"
       THEN [status |-> 422,
             title |-> "Cannot infer a recipe from the provided source",
             detail |-> "event.cause.message"]
       ELSE [status |-> 500, title |-> "Recipe generation failed",
             detail |-> "An unexpected internal error occurred."]
  ELSE [status |-> 200, title |-> event.type, detail |-> None]

\* part_005:84-128 - the earlier handler: a bare status for each event,
\* 200 stands for an event passed on to the response stream
createRecipeStatusOnly(event) ==
  IF event.type = "recipeAlreadyExists" THEN 409
  ELSE IF event.type = "recipeInputValidationFailed" THEN 422
  ELSE IF event.type = "videoUnavailable" THEN 404
  ELSE IF event.type = "videoTranscriptUnavailable" THEN 422
  ELSE IF event.type \in RecipePipelineErrors THEN 500
  ELSE 200

HandlerRevisions == {"part_005", "part_006"}

HandlerStatus(rev, event) ==
  IF rev = "part_005" THEN createRecipeStatusOnly(event)
  ELSE createRecipe(event).status

\* the handler's loop yielding every event, the error events included,
\* before it returns the status
RECURSIVE createRecipeYieldAll(_, _, _)
createRecipeYieldAll(rev, events, forwarded) ==
  IF events = <<>>
  THEN [forwarded |-> forwarded, status |-> 200, consumed |-> Len(forwarded)]
  ELSE IF HandlerStatus(rev, Head(events)) # 200
       THEN [forwarded |-> Append(forwarded, Head(events)),
             status |-> HandlerStatus(rev, Head(events)),
             consumed |-> Len(forwarded) + 1]
       ELSE createRecipeYieldAll(rev, Tail(events),
                                 Append(forwarded, Head(events)))

\* part_006:92-201, part_005:85-127 - `for await (const event of
\* processRecipeFromSource(..))`: a success event is yielded to the client
\* and the loop goes on; any other event returns status(..), which leaves
\* the loop and closes the service's generator. `events` are the events
\* the service yields, `forwarded` those passed on so far; `consumed`
\* counts the events taken from the service
RECURSIVE createRecipeLoop(_, _, _)
createRecipeLoop(rev, events, forwarded) ==
  IF events = <<>>
  THEN [forwarded |-> forwarded, status |-> 200, consumed |-> Len(forwarded)]
  ELSE IF HandlerStatus(rev, Head(events)) # 200
       THEN [forwarded |-> forwarded,
             status |-> HandlerStatus(rev, Head(events)),
             consumed |-> Len(forwarded) + 1]
       ELSE createRecipeLoop(rev, Tail(events),
                             Append(forwarded, Head(events)))

(* ======================================================= searchRecipes == *)
\* 1 - cosineDistance(embedding, queryEmbeddings) and ts_rank_cd(...) of a
\* row, in tenths
SimilarityValues == {5, 7, 9}
KeywordValues == {1, 9}

\* the weights the other way round
finalScoreSwapped(similarity, keywordScore) == 3 * similarity + 7 * keywordScore

\* part_001:143, service.ts:119 - (0.7 * similarity + 0.3 * keywordScore),
\* in hundredths for similarity and keywordScore in tenths
finalScore(similarity, keywordScore) == 7 * similarity + 3 * keywordScore

\* .orderBy(desc(finalScore)): every sequence of the rows with finalScore
\* not increasing; the order of rows with equal finalScore is whatever the
\* database produces
OrderByDesc(rows) ==
  { o \in [1..Cardinality(rows) -> rows] :
      /\ \A i \in DOMAIN o : \A j \in DOMAIN o : o[i] = o[j] => i = j
      /\ \A i \in DOMAIN o : \A j \in DOMAIN o :
           i < j => o[i].finalScore >= o[j].finalScore }

\* the videos whose recipes are in the database
VideoIds == <<"a", "b", "c", "d", "e">>

\* a database holding n committed recipes, no request in flight
SearchInit ==
  /\ version \in Versions
  /\ \E n \in 0..MaxRecipes :
       /\ n <= Len(VideoIds)
       /\ sources = { [id |-> i,
                        external_id |->
                          IF version = "stream"
                          THEN ExternalId("", VideoIds[i])
                          ELSE getExternalIdBySourceType("youtube-shorts",
                                                         VideoIds[i]),
                        type |-> "youtube-shorts"] : i \in 1..n }
       /\ recipes = { RecipeRow(i, i) : i \in 1..n }
       /\ embeddings = { EmbeddingRow(i, i) : i \in 1..n }
       /\ seq = [sources |-> n, jobs |-> 0, steps |-> 0, recipes |-> n,
                 embeddings |-> n, content_items |-> 0]
  /\ jobs = {}
  /\ steps = {}
  /\ content_items = {}
  /\ req = [r \in Requests |-> InitReq]
  /\ search = NoSearch
  /\ parseRun = NoParsed
  /\ jobQuery = NoQuery
  /\ lookup = NoLookup
  /\ llmCall = NoLlmCall

\* the rows written by transactions that have not committed
PendingRecipes ==
  { RecipeRow(req[r].txn.recipe, req[r].sourceId) :
      r \in { q \in Requests : req[q].txn.recipe # NoId } }
PendingEmbeddings ==
  { EmbeddingRow(req[r].txn.embedding, req[r].txn.recipe) :
      r \in { q \in Requests : req[q].txn.embedding # NoId } }

\* the query reading the rows of open transactions as well
searchRecipesReadUncommitted ==
  /\ ~search.called
  /\ \E similarity \in [embeddings \cup PendingEmbeddings -> SimilarityValues] :
     \E keywordScore \in [recipes \cup PendingRecipes -> KeywordValues] :
       LET joined ==
             { [recipe       |-> p[2].id,
                similarity   |-> similarity[p[1]],
                keywordScore |-> keywordScore[p[2]],
                finalScore   |-> finalScore(similarity[p[1]], keywordScore[p[2]])] :
               p \in { q \in (embeddings \cup PendingEmbeddings)
                                \X (recipes \cup PendingRecipes) :
                          q[1].recipe_id = q[2].id } }
       IN  \E rows \in OrderByDesc(joined) :
             search' = [called |-> TRUE, rows |-> rows]
  /\ UNCHANGED <<version, tables, seq, req, parseRun, jobQuery, lookup, llmCall>>

\* part_001:128-160, service.ts:104-136 - the scores of the rows for the
\* query, embeddings inner join recipes, order by finalScore desc
searchRecipes ==
  /\ ~search.called
  /\ \E similarity \in [embeddings -> SimilarityValues] :
     \E keywordScore \in [recipes -> KeywordValues] :
       LET joined ==
             { [recipe       |-> p[2].id,
                similarity   |-> similarity[p[1]],
                keywordScore |-> keywordScore[p[2]],
                finalScore   |-> finalScore(similarity[p[1]], keywordScore[p[2]])] :
               p \in { q \in embeddings \X recipes : q[1].recipe_id = q[2].id } }
       IN  \E rows \in OrderByDesc(joined) :
             search' = [called |-> TRUE, rows |-> rows]
  /\ UNCHANGED <<version, tables, seq, req, parseRun, jobQuery, lookup, llmCall>>

SearchNext == searchRecipes

SearchSpec == SearchInit /\ [][SearchNext]_vars

(* ------- processRecipePipeline entered at startFrom, job.ts:153-180 ---- *)
\* RecipePipeline.slice(startFrom), job.ts:49 and job.ts:171: the program
\* point of the first step that runs
RecipePipeline == <<"transcript", "recipe", "save">>

\* processRecipePipeline(recipeSource, db, logger, videoInfo, startFrom):
\* the source row exists, the context is built anew at job.ts:164-169 with
\* neither transcript nor recipe, and the loop starts at step startFrom;
\* a run that is past its first step has stored its transcript
ResumeInit ==
  /\ version = "stream"
  /\ sources = { [id |-> r, external_id |-> ExternalId("", VideoIds[r]),
                  type |-> "youtube-shorts"] : r \in Requests }
  /\ \E startFrom \in [Requests -> 0..2] :
       /\ req = [r \in Requests |->
                  [InitReq EXCEPT !.pc = RecipePipeline[startFrom[r] + 1],
                                  !.externalId = ExternalId("", VideoIds[r]),
                                  !.sourceId = r,
                                  !.ctx = NoCtx]]
       /\ content_items = { [id |-> r, recipe_source_id |-> r,
                             pipeline_step |-> "transcriptGenerated"] :
                            r \in {q \in Requests : startFrom[q] > 0} }
  /\ seq = [sources |-> NumRequests, jobs |-> 0, steps |-> 0, recipes |-> 0,
            embeddings |-> 0, content_items |-> NumRequests]
  /\ jobs = {}
  /\ steps = {}
  /\ recipes = {}
  /\ embeddings = {}
  /\ search = NoSearch
  /\ parseRun = NoParsed
  /\ jobQuery = NoQuery
  /\ lookup = NoLookup
  /\ llmCall = NoLlmCall

ResumeNext ==
  \E r \in Requests :
    \/ TranscriptStep(r)
    \/ TranscriptPersist(r)
    \/ RecipeStep(r)
    \/ SaveStepEmbedding(r)
    \/ SaveStepInsertRecipe(r)
    \/ SaveStepInsertEmbedding(r)
    \/ SaveStepCommit(r)

ResumeSpec == ResumeInit /\ [][ResumeNext]_vars

(* ===================== GET /recipe-job/:job-id, server.ts:111-122 ====== *)
\* getRecipeJob, job.ts:284-293 - select id, type, status, error_message
\* of the rows, ordered by `order` ascending
RECURSIVE SelectStepsOrdered(_)
SelectStepsOrdered(rows) ==
  IF rows = {} THEN <<>>
  ELSE LET first == CHOOSE s \in rows : \A o \in rows : s.order <= o.order
       IN  <<[id |-> first.id, type |-> first.type, status |-> first.status,
              error_message |-> first.error_message]>>
             \o SelectStepsOrdered(rows \ {first})

\* the job ids a client asks for: those of the jobs and one more
JobIds == 1..(NumRequests + 1)

\* the database after createRecipeJob committed for every registration
\* (job.ts:311-362): a source, a job and its step rows each, all in status
\* created, and runRecipeJob queued by setImmediate (service.ts:83-99)
GetJobInit ==
  /\ version = "job"
  /\ sources = { [id |-> r, external_id |->
                    getExternalIdBySourceType("youtube-shorts", VideoIds[r]),
                  type |-> "youtube-shorts"] : r \in Requests }
  /\ jobs = { JobRow(r, r) : r \in Requests }
  /\ steps = UNION { { StepRow(Len(YOUTUBE_SHORT_RECIPE_JOB_STEPS) * (r - 1) + i,
                               r, YOUTUBE_SHORT_RECIPE_JOB_STEPS[i]) :
                         i \in DOMAIN YOUTUBE_SHORT_RECIPE_JOB_STEPS } :
                     r \in Requests }
  /\ recipes = {}
  /\ embeddings = {}
  /\ content_items = {}
  /\ seq = [sources |-> NumRequests, jobs |-> NumRequests,
            steps |-> Len(YOUTUBE_SHORT_RECIPE_JOB_STEPS) * NumRequests,
            recipes |-> 0, embeddings |-> 0, content_items |-> 0]
  /\ req = [r \in Requests |->
              [InitReq EXCEPT
                 !.pc = "done",
                 !.externalId =
                    getExternalIdBySourceType("youtube-shorts", VideoIds[r]),
                 !.sourceId = r,
                 !.jobId = r,
                 !.result = "job-created",
                 !.bg = "queued"]]
  /\ search = NoSearch
  /\ parseRun = NoParsed
  /\ jobQuery = NoQuery
  /\ lookup = NoLookup
  /\ llmCall = NoLlmCall

\* getRecipeJob, job.ts:276-282 - select the job row; `if (!job) return
\* null`, and the handler answers Not Found (server.ts:114-118)
getRecipeJobSelectJob ==
  /\ jobQuery.pc = "idle"
  /\ \E jobId \in JobIds :
       LET found == { j \in jobs : j.id = jobId }
       IN  IF found = {}
           THEN jobQuery' = [pc |-> "done", jobId |-> jobId, job |-> NoJob,
                             seen |-> {}, result |-> NoResult]
           ELSE jobQuery' = [pc |-> "steps", jobId |-> jobId,
                             job |-> CHOOSE j \in found : TRUE,
                             seen |-> { st \in steps : st.job_id = jobId },
                             result |-> NoResult]
  /\ UNCHANGED <<version, tables, seq, req, search, parseRun, lookup, llmCall>>

\* getRecipeJob, job.ts:284-308 - a second select reads the step rows;
\* the result joins them to the job row read before
getRecipeJobSelectSteps ==
  /\ jobQuery.pc = "steps"
  /\ jobQuery' = [jobQuery EXCEPT
        !.pc = "done",
        !.result = [found |-> TRUE,
                    id |-> jobQuery.job.id,
                    status |-> jobQuery.job.status,
                    started_at |-> jobQuery.job.started_at,
                    completed_at |-> jobQuery.job.completed_at,
                    error_message |-> jobQuery.job.error_message,
                    steps |-> SelectStepsOrdered(
                       { st \in steps : st.job_id = jobQuery.jobId })]]
  /\ UNCHANGED <<version, tables, seq, req, search, parseRun, lookup, llmCall>>

\* processRecipeJob runs for the queued jobs while a client reads
GetJobNext ==
  \/ getRecipeJobSelectJob
  \/ getRecipeJobSelectSteps
  \/ ProcessJobNext

GetJobSpec == GetJobInit /\ [][GetJobNext]_vars

(* ====================== getRecipeByExternalId, part_001:162-186 ======== *)
\* recipe_sources.type is a text column (youtube/service.ts:56) and the
\* unique constraint is on (external_id, type) (youtube/service.ts:64): a
\* second kind of source may hold the external id of a short
SourceKinds == SourceTypes \cup {"other-kind"}

SourceKeys ==
  { <<VideoIds[i], t>> : i \in 1..NumVideoIds, t \in SourceKinds }

\* a database of n sources with distinct (external_id, type), some with a
\* committed recipe and embedding, no request in flight
LookupInit ==
  /\ version = "stream"
  /\ \E n \in 0..MaxRecipes :
       \E key \in [1..n -> SourceKeys] :
         \E saved \in SUBSET (1..n) :
           /\ \A i \in 1..n : \A k \in 1..n : i # k => key[i] # key[k]
           /\ sources = { [id |-> i,
                            external_id |-> ExternalId("", key[i][1]),
                            type |-> key[i][2]] : i \in 1..n }
           /\ recipes = { RecipeRow(i, i) : i \in saved }
           /\ embeddings = { EmbeddingRow(i, i) : i \in saved }
           /\ seq = [sources |-> n, jobs |-> 0, steps |-> 0, recipes |-> n,
                     embeddings |-> n, content_items |-> 0]
  /\ jobs = {}
  /\ steps = {}
  /\ content_items = {}
  /\ req = [r \in Requests |-> InitReq]
  /\ search = NoSearch
  /\ parseRun = NoParsed
  /\ jobQuery = NoQuery
  /\ lookup = NoLookup
  /\ llmCall = NoLlmCall

\* part_001:76-80 - the existing-recipe lookup of a registration of kind
\* youtube-shorts
LookupRecipe ==
  /\ ~lookup.called
  /\ \E i \in 1..NumVideoIds : \E type \in SourceTypes :
       lookup' = [called |-> TRUE,
                  externalId |-> ExternalId("", VideoIds[i]),
                  type |-> type,
                  recipeId |-> getRecipeByExternalId(
                                 ExternalId("", VideoIds[i]), type)]
  /\ UNCHANGED <<version, tables, seq, req, search, parseRun, jobQuery, llmCall>>

LookupNext == LookupRecipe

LookupSpec == LookupInit /\ [][LookupNext]_vars

(* ============== GET /recipe during ingestion, server.ts:94-99 ========== *)
\* a search arriving while registrations of the streaming revision run
IngestSearchInit == Init /\ version = "stream"

IngestSearchNext == StreamNext \/ searchRecipes

IngestSearchSpec == IngestSearchInit /\ [][IngestSearchNext]_vars

(* ================================================== RecipeParsedSchema == *)
\* ingredient names of the model output, as their characters
RawNames ==
  { <<"s">>, <<"S">>, <<" ", "s">>, <<"S", " ">>, <<"t">>, <<" ", "T", " ">> }

Quantities == {"1 cup", "2 tbsp", "null"}

RawIngredients == [name : RawNames, quantity : Quantities]

RECURSIVE trimStart(_)
trimStart(value) ==
  IF value # <<>> /\ Head(value) = " " THEN trimStart(Tail(value)) ELSE value

RECURSIVE trimEnd(_)
trimEnd(value) ==
  IF value # <<>> /\ value[Len(value)] = " "
  THEN trimEnd(SubSeq(value, 1, Len(value) - 1)) ELSE value

\* String.prototype.trim
trim(value) == trimEnd(trimStart(value))

\* String.prototype.toLowerCase
toLowerCase(value) ==
  [i \in DOMAIN value |->
     IF value[i] = "S" THEN "s" ELSE IF value[i] = "T" THEN "t" ELSE value[i]]

\* service.ts:99 - name: z.string().transform(value.trim().toLowerCase())
transformName(value) == toLowerCase(trim(value))

\* the loop keeping the last occurrence of a name
RECURSIVE dedupeKeepLast(_, _, _)
dedupeKeepLast(rest, seenIngredientNames, ingredients) ==
  IF rest = <<>> THEN ingredients
  ELSE LET ingredient == Head(rest)
       IN  dedupeKeepLast(
             Tail(rest), seenIngredientNames \cup {ingredient.name},
             SelectSeq(ingredients, LAMBDA i : i.name # ingredient.name)
               \o <<ingredient>>)

\* service.ts:107-117 - the loop over data.ingredients with
\* seenIngredientNames
RECURSIVE dedupe(_, _, _)
dedupe(rest, seenIngredientNames, ingredients) ==
  IF rest = <<>> THEN ingredients
  ELSE LET ingredient == Head(rest)
       IN  IF ingredient.name \in seenIngredientNames
           THEN dedupe(Tail(rest), seenIngredientNames, ingredients)
           ELSE dedupe(Tail(rest), seenIngredientNames \cup {ingredient.name},
                       Append(ingredients, ingredient))

\* service.ts:95-122 - the field transforms, then the object transform
RecipeParsedSchema(ingredients) ==
  dedupe([i \in DOMAIN ingredients |->
            [name |-> transformName(ingredients[i].name),
             quantity |-> ingredients[i].quantity]],
         {}, <<>>)

\* a model output with up to MaxIngredients ingredients
ParseInit ==
  /\ version \in Versions
  /\ sources = {}
  /\ jobs = {}
  /\ steps = {}
  /\ recipes = {}
  /\ embeddings = {}
  /\ content_items = {}
  /\ seq = [sources |-> 0, jobs |-> 0, steps |-> 0, recipes |-> 0,
            embeddings |-> 0, content_items |-> 0]
  /\ req = [r \in Requests |-> InitReq]
  /\ search = NoSearch
  /\ jobQuery = NoQuery
  /\ lookup = NoLookup
  /\ llmCall = NoLlmCall
  /\ \E n \in 0..MaxIngredients :
       \E raw \in [1..n -> RawIngredients] :
         parseRun = [NoParsed EXCEPT !.pc = "raw", !.raw = raw]

\* parseRecipe, service.ts:25-33 - RecipeParsedSchema.safeParse(result.object)
ParseIngredients ==
  /\ parseRun.pc = "raw"
  /\ parseRun' = [parseRun EXCEPT !.pc = "parsed",
                              !.data = RecipeParsedSchema(parseRun.raw)]
  /\ UNCHANGED <<version, tables, seq, req, search, jobQuery, lookup, llmCall>>

\* saveStep, job.ts:121-130 (part_003:158-169) -
\* ingredients: ctx.recipe.ingredients
StoreIngredients ==
  /\ parseRun.pc = "parsed"
  /\ parseRun' = [parseRun EXCEPT !.pc = "stored", !.stored = parseRun.data]
  /\ UNCHANGED <<version, tables, seq, req, search, jobQuery, lookup, llmCall>>

ParseNext == ParseIngredients \/ StoreIngredients

ParseSpec == ParseInit /\ [][ParseNext]_vars

(* ============================ parseRecipe, llm/service.ts:10-34 ======== *)
\* RecipeRawSchema (llm/service.ts:75-93): name and instructions are
\* nullable strings; error is optional and nullable, and an error object
\* has a string `reason`, which may be empty
RawObjectNames ==
  { [null |-> TRUE,  value |-> <<>>],
    [null |-> FALSE, value |-> <<>>],
    [null |-> FALSE, value |-> <<"s">>],
    [null |-> FALSE, value |-> <<" ", "S">>] }

RawObjectInstructions ==
  { [null |-> TRUE,  value |-> ""],
    [null |-> FALSE, value |-> ""],
    [null |-> FALSE, value |-> "boil"] }

RawObjectErrors ==
  { [kind |-> "absent", reason |-> ""],
    [kind |-> "null",   reason |-> ""],
    [kind |-> "object", reason |-> ""],
    [kind |-> "object", reason |-> "no-actions"] }

RecipeRawSchema ==
  [name : RawObjectNames, instructions : RawObjectInstructions,
   error : RawObjectErrors]

\* the outcome kinds: a ParsedRecipe, or a thrown Error with its message
SchemaValidationFailed == "Schema validation failed: .."

\* llm/service.ts:21-33 - `if (result.object.error?.reason) throw new
\* Error(reason)`: the test is on the truthiness of the reason, which an
\* empty string fails; then `delete result.object.error` and
\* RecipeParsedSchema.safeParse, where name and instructions are
\* z.string() and reject null; a failure throws the schema message
parseRecipe(object) ==
  IF object.error.kind = "object" /\ object.error.reason # ""
  THEN [kind |-> "Error", message |-> object.error.reason, name |-> <<>>]
  ELSE IF object.name.null \/ object.instructions.null
  THEN [kind |-> "Error", message |-> SchemaValidationFailed, name |-> <<>>]
  ELSE [kind |-> "recipe", message |-> "",
        name |-> transformName(object.name.value)]

\* generateObject resolved with an object that passes RecipeRawSchema
LlmInit ==
  /\ version = "stream"
  /\ sources = {}
  /\ jobs = {}
  /\ steps = {}
  /\ recipes = {}
  /\ embeddings = {}
  /\ content_items = {}
  /\ seq = [sources |-> 0, jobs |-> 0, steps |-> 0, recipes |-> 0,
            embeddings |-> 0, content_items |-> 0]
  /\ req = [r \in Requests |-> InitReq]
  /\ search = NoSearch
  /\ parseRun = NoParsed
  /\ jobQuery = NoQuery
  /\ lookup = NoLookup
  /\ \E object \in RecipeRawSchema :
       llmCall = [NoLlmCall EXCEPT !.pc = "object", !.object = object]

\* llm/service.ts:21-33
ParseRecipeReturn ==
  /\ llmCall.pc = "object"
  /\ llmCall' = [llmCall EXCEPT !.pc = "returned",
                                !.outcome = parseRecipe(llmCall.object)]
  /\ UNCHANGED <<version, tables, seq, req, search, parseRun, jobQuery, lookup>>

\* recipeStep, job.ts:92-103 - a resolved parseRecipe gives
\* RecipeGenerated, a rejected one RecipeGenerationFailed; then the loop
\* of job.ts:171-179 goes on to saveStep or returns
RecipeStepYield ==
  /\ llmCall.pc = "returned"
  /\ llmCall' = [llmCall EXCEPT
        !.pc = "yielded",
        !.event = IF llmCall.outcome.kind = "recipe"
                  THEN "recipeGenerated" ELSE "recipeGenerationFailed",
        !.next = IF llmCall.outcome.kind = "recipe" THEN "save" ELSE "return"]
  /\ UNCHANGED <<version, tables, seq, req, search, parseRun, jobQuery, lookup>>

LlmNext == ParseRecipeReturn \/ RecipeStepYield

LlmSpec == LlmInit /\ [][LlmNext]_vars

(* ================================================================ claims *)
AlreadyExistsResults == {"recipeAlreadyExists", "recipe-already-exists-error"}
Finished(r) == req[r].pc \in {"done", "thrown"}

\* C1: in every reachable state, whatever the interleaving of concurrent
\* registrations, recipe_sources holds at most one row per
\* (external_id, type) pair.
C1_OneSourcePerKey ==
  \A s1 \in sources : \A s2 \in sources :
    (s1.external_id = s2.external_id /\ s1.type = s2.type) => s1.id = s2.id

\* two registrations of the same reference both passed the existing-recipe
\* check; one inserted the source, the other hit the unique constraint
C1_Witness ==
  \E r1 \in Requests : \E r2 \in Requests \ {r1} :
    /\ req[r1].externalId = req[r2].externalId
    /\ ~req[r1].late /\ ~req[r2].late
    /\ req[r1].sourceId # NoId
    /\ req[r2].error = "uniqueViolation"

\* C2: a registration whose source insert hits the uniqueness constraint
\* resolves to an already-exists outcome and never ends in an unhandled
\* error.
C2_ConflictResolvedAsAlreadyExists ==
  \A r \in Requests :
    req[r].error = "uniqueViolation" => req[r].result \in AlreadyExistsResults

\* C3: of the registrations of one reference only the first creates a
\* source; every later one that gets past validation and the external
\* existence check ends with already-exists, whatever the state of the
\* first one's pipeline.
C3_LaterRegistrationsAlreadyExist ==
  \A r \in Requests :
    (/\ req[r].late
     /\ Finished(r)
     /\ req[r].result # "videoUnavailable")
    => req[r].result \in AlreadyExistsResults

\* C4: in every reachable state, also inside the commit and after a failed
\* insert, every recipes row has exactly one embeddings row referencing it
\* and every embeddings row references a recipes row.
C4_RecipeIffEmbedding ==
  /\ \A rc \in recipes :
       Cardinality({ e \in embeddings : e.recipe_id = rc.id }) = 1
  /\ \A e \in embeddings : \E rc \in recipes : rc.id = e.recipe_id

\* a transaction is between its two inserts while an earlier one has
\* committed its pair of rows
C4_Witness ==
  /\ recipes # {}
  /\ \E r \in Requests : req[r].txn.recipe # NoId /\ req[r].txn.embedding = NoId

\* job.ts:544 writes "success" where the schema comment and the job type
\* speak of completed
CompletedStatuses == {"completed", "success"}
TerminalStatuses == CompletedStatuses \cup {"failed"}

HasRecipe(sourceId) ==
  \E rc \in recipes :
    /\ rc.recipe_source_id = sourceId
    /\ \E e \in embeddings : e.recipe_id = rc.id

JobOf(r) == CHOOSE j \in jobs : j.id = req[r].jobId

\* C5: in every reachable state a job is completed if and only if a recipe
\* with its embedding exists for the job's source.
C5_RecipeIffJobCompleted ==
  \A j \in jobs : (j.status \in CompletedStatuses) <=> HasRecipe(j.recipe_source_id)

\* C6: once a step of a job has failed, no step of greater order is
\* executed or leaves status `created`, and the job ends `failed` with an
\* error message.
C6_FailureHaltsJob ==
  \A r \in Requests :
    req[r].failedIdx # 0 =>
      /\ req[r].stepIdx = req[r].failedIdx
      /\ \A s \in steps :
           (s.job_id = req[r].jobId /\ s.order > req[r].failedIdx - 1)
             => s.status = "created"
      /\ req[r].bg = "finished" =>
           /\ JobOf(r).status = "failed"
           /\ JobOf(r).error_message # None

\* C7: in every state of the store no step is processing or completed
\* while a step of lower order of the same job is not completed.
C7_StepsInOrder ==
  \A s1 \in steps : \A s2 \in steps :
    (/\ s1.job_id = s2.job_id
     /\ s1.order < s2.order
     /\ s2.status \in {"processing", "completed"})
    => s1.status = "completed"

JobTransitions ==
  { <<"created", "processing">>, <<"processing", "failed">> }
    \cup { <<"processing", c>> : c \in CompletedStatuses }

\* C8: a job row is never removed and its status only moves along
\* created -> processing -> (completed | failed); a terminal status is
\* never changed again.
C8_JobStatusMonotonic ==
  [][ \A j \in jobs : \E k \in jobs' :
        /\ k.id = j.id
        /\ \/ k.status = j.status
           \/ <<j.status, k.status>> \in JobTransitions ]_vars

\* one job is terminal while the task of another job has set its job
\* processing
C8_Witness ==
  \E j1 \in jobs : \E j2 \in jobs :
    j1.status \in TerminalStatuses /\ j2.status = "processing"

EventTypes(events) == [i \in DOMAIN events |-> events[i].type]

\* a finished run of the pipeline in which the transcript and the recipe
\* were produced and the save step failed
C9_Case(r) ==
  /\ version = "stream"
  /\ req[r].pc = "done"
  /\ req[r].ctx.transcript /\ req[r].ctx.recipe
  /\ req[r].result = "recipeSavingFailed"

C10_Case(r) ==
  /\ req[r].pc = "lookup"
  /\ req'[r].result \in AlreadyExistsResults

C10_ZeroWrites(r) ==
  /\ tables' = tables
  /\ seq' = seq
  /\ req'[r].pc = "done"
  /\ req'[r].bg = "idle"
  /\ req'[r].sourceId = NoId /\ req'[r].jobId = NoId

\* the outcome carries the id of a recipe whose source has the reference
C10_CarriesRecipeId(r) ==
  \E rc \in recipes : \E s \in sources :
    /\ rc.recipe_source_id = s.id
    /\ s.external_id = req[r].externalId
    /\ req'[r].recipeId = rc.id
    /\ req'[r].events # <<>>
    /\ req'[r].events[Len(req'[r].events)].recipeId = rc.id

ValidationResults == {"recipeInputValidationFailed", "validation-error"}

\* C11: the step that rejects a reference for its shape writes no row,
\* burns no sequence value, queues no background task and ends the request
\* with the validation error as its only outcome; afterwards the request
\* does nothing more (no lookup, no external call, no pipeline step).
C11_ValidationErrorNoWrites ==
  [][ \A r \in Requests :
        /\ (req[r].pc = "start" /\ req'[r].result \in ValidationResults) =>
              /\ tables' = tables
              /\ seq' = seq
              /\ req'[r].pc = "done"
              /\ req'[r].bg = "idle"
              /\ req'[r].ctx = NoCtx
              /\ req'[r].sourceId = NoId /\ req'[r].jobId = NoId
              /\ req'[r].externalId = NoExternalId
              /\ EventTypes(req'[r].events) =
                    IF version = "stream"
                    THEN <<"recipeInputValidationFailed">> ELSE <<>>
        /\ req[r].result \in ValidationResults => req'[r] = req[r] ]_vars

\* a reference is rejected for its shape while the store already holds the
\* source of an earlier registration
C11_Witness ==
  \E r \in Requests :
    /\ req[r].result \in ValidationResults
    /\ req[r].pc = "done"
    /\ sources # {}

\* C12: a registration whose external existence check fails ends with
\* videoUnavailable (the code's upstreamUnavailable) in the step of the
\* check, which writes no row and burns no sequence value; the request
\* never owns a source row and does nothing more, so no source row in the
\* store stems from it and the unique constraint cannot reject a later
\* registration of the reference on its account.
C12_UnavailableCreatesNoSource ==
  [][ \A r \in Requests :
        /\ (req[r].pc = "videoInfo"
              /\ req'[r].pc \notin {"videoInfo", "createSource"}) =>
              /\ req'[r].result = "videoUnavailable"
              /\ req'[r].pc = "done"
              /\ req'[r].sourceId = NoId
              /\ req'[r].events[Len(req'[r].events)].type = "videoUnavailable"
              /\ tables' = tables
              /\ seq' = seq
        /\ req[r].result = "videoUnavailable" =>
              /\ req'[r] = req[r]
              /\ \A s \in sources' :
                   \E o \in Requests \ {r} : req'[o].sourceId = s.id ]_vars

\* after a registration of a reference ended with videoUnavailable, a
\* later registration of the same reference created the source
C12_Witness ==
  \E r1 \in Requests : \E r2 \in Requests \ {r1} :
    /\ req[r1].result = "videoUnavailable"
    /\ req[r2].externalId = req[r1].externalId
    /\ req[r2].sourceId # NoId
    /\ r1 < r2

\* the pipeline of a registration has started: the generator of
\* processRecipePipeline was entered, or the background task set its job
\* processing
PipelineStarted(r) ==
  IF version = "stream" THEN req[r].pc = "transcript"
  ELSE req[r].bg \notin {"idle", "queued"}

\* the recipe is committed or the job completed, or a failure is recorded:
\* the failure event of the streaming pipeline, status failed of the job
TerminalOutcome(r) ==
  IF version = "stream"
  THEN /\ req[r].pc = "done"
       /\ req[r].result \in {"recipeSaved"} \cup RecipePipelineErrors
  ELSE \E j \in jobs : j.id = req[r].jobId /\ j.status \in TerminalStatuses

\* C13: a pipeline execution with an event stream (the streaming
\* revision) that has started eventually reaches a terminal outcome, also
\* when the observer of its event stream goes away after an event.
C13_PipelineRunsToTerminal ==
  \A r \in Requests :
    (version = "stream" /\ PipelineStarted(r)) ~> TerminalOutcome(r)

\* C14: when the background task of a job has ended through a fault that
\* reached the catch of runRecipeJob, the job is marked failed (and so is
\* not left in processing).
C14_FaultMarksJobFailed ==
  \A r \in Requests :
    req[r].bg = "caught" =>
      \E j \in jobs : j.id = req[r].jobId /\ j.status = "failed"

\* the execution of a registration has ended after a step failed
FailureEnded(r) ==
  IF version = "stream"
  THEN req[r].pc = "done" /\ req[r].result \in RecipePipelineErrors
  ELSE req[r].failedIdx # 0 /\ req[r].bg \in {"finished", "caught"}

\* what a status query reads back: a failed job of the source with its
\* message
FailureRecorded(r) ==
  \E j \in jobs : /\ j.recipe_source_id = req[r].sourceId
                  /\ j.status = "failed"
                  /\ j.error_message # None

\* C15: when an execution has ended after a step failure, the store holds
\* the failure (status failed and a message), whether or not an observer
\* received the failure event.
C15_FailureDurablyRecorded ==
  \A r \in Requests : FailureEnded(r) => FailureRecorded(r)

\* the final write of recipe and embedding failed after every step had
\* succeeded: saveStep's transaction (the embedding is generated inside
\* saveStep and is no step of its own), createRecipe's transaction
CommitFailed(r) ==
  IF version = "stream"
  THEN /\ req[r].pc = "done"
       /\ req[r].result = "recipeSavingFailed"
       /\ req[r].events[Len(req[r].events)].cause
            \in {"insertRecipe", "insertEmbedding", "commit"}
  ELSE req[r].error = "recipeTxn"

\* C16: when the final write has failed after all steps succeeded, a
\* failure event is the last event of the stream and the job of the
\* source, where there is one, is failed - never completed or success.
C16_CommitFailureFailsJob ==
  \A r \in Requests :
    CommitFailed(r) =>
      /\ version = "stream" =>
           req[r].events[Len(req[r].events)].type \in RecipePipelineErrors
      /\ \A j \in jobs :
           j.recipe_source_id = req[r].sourceId => j.status = "failed"

\* a step of the run or its final write has failed
RunFailed(r) ==
  IF version = "stream"
  THEN req[r].pc = "done" /\ req[r].result \in RecipePipelineErrors
  ELSE req[r].failedIdx # 0 \/ req[r].error = "recipeTxn"

\* C17: a run in which a step or the final write failed leaves no recipe
\* row for its source and no embedding row of such a recipe, and the step
\* that failed is not invoked again: the streaming run takes no further
\* step, the background task never returns to the failed step.
C17_FailureLeavesNoRecipe ==
  /\ [](\A r \in Requests :
          (RunFailed(r) /\ req[r].sourceId # NoId) =>
            /\ \A rc \in recipes : rc.recipe_source_id # req[r].sourceId
            /\ \A e \in embeddings : \A rc \in recipes :
                 e.recipe_id = rc.id => rc.recipe_source_id # req[r].sourceId
            /\ req[r].txn = NoTxn)
  /\ [][ \A r \in Requests :
          RunFailed(r) =>
            /\ version = "stream" => req'[r] = req[r]
            /\ req'[r].bg = "runStep" => req'[r].stepIdx # req[r].failedIdx
            /\ req'[r].bg \notin {"txnRecipe", "txnEmbedding", "txnCommit"}
       ]_vars

\* the final write failed after the recipe row had been inserted inside
\* the transaction
C17_Witness ==
  \E r \in Requests :
    /\ CommitFailed(r)
    /\ seq.recipes > 0
    /\ seq.embeddings > 0
    /\ recipes = {}

\* C18: the transcript step ends the same way whether or not the insert
\* of the content item succeeded: it yields transcriptGenerated, keeps the
\* transcript in its context and the pipeline goes on with the structuring
\* step.
C18_ContentItemFailureSwallowed ==
  [][ \A r \in Requests :
        (req[r].pc = "transcriptPersist" /\ req'[r].pc # "transcriptPersist")
          => /\ req'[r] = Yield(req, r, Event("transcriptGenerated", NoId, None),
                                "recipe")[r]
             /\ req'[r].pc = "recipe"
             /\ req'[r].ctx.transcript
             /\ req'[r].result = None ]_vars

\* the structuring step has run on the transcript of a source for which
\* no content item was persisted
C18_Witness ==
  \E r \in Requests :
    /\ version = "stream"
    /\ req[r].pc = "save"
    /\ req[r].ctx.recipe
    /\ EventTypes(req[r].events) = <<"transcriptGenerated", "recipeGenerated">>
    /\ \A c \in content_items : c.recipe_source_id # req[r].sourceId

StepsOf(j) == { st \in steps : st.job_id = j.id }

\* C19: in every state the rows written by createRecipeJob are all there
\* or none is: every source has its job and every job its source, a job
\* of the revision with step rows has exactly one step row per declared
\* step type, every step row belongs to a job, and a request whose
\* createRecipeJob failed owns no row.
C19_CreateJobAtomic ==
  /\ version \in {"job", "proc"} =>
       \A s \in sources : \E j \in jobs : j.recipe_source_id = s.id
  /\ \A j \in jobs : \E s \in sources : s.id = j.recipe_source_id
  /\ version = "job" =>
       \A j \in jobs :
         /\ Cardinality(StepsOf(j)) = Len(YOUTUBE_SHORT_RECIPE_JOB_STEPS)
         /\ \A i \in DOMAIN YOUTUBE_SHORT_RECIPE_JOB_STEPS :
              \E st \in StepsOf(j) :
                /\ st.type = YOUTUBE_SHORT_RECIPE_JOB_STEPS[i].type
                /\ st.order = YOUTUBE_SHORT_RECIPE_JOB_STEPS[i].order
  /\ \A st \in steps : \E j \in jobs : j.id = st.job_id
  /\ \A r \in Requests :
       req[r].pc = "thrown" =>
         /\ req[r].sourceId = NoId /\ req[r].jobId = NoId
         /\ req[r].txn = NoTxn
         /\ \A s \in sources :
              s.external_id = req[r].externalId =>
                \E o \in Requests \ {r} : req[o].sourceId = s.id

\* the insert of the step rows failed for one registration after another
\* registration had committed its source, job and step rows
C19_Witness ==
  \E r \in Requests :
    /\ req[r].pc = "thrown"
    /\ req[r].error = "stepInsertFailed"
    /\ jobs # {}
    /\ seq.jobs > Cardinality(jobs)

\* the pipeline of a registration is running or has run: the generator of
\* processRecipePipeline was entered, or the background task has begun
PipelineEntered(r) ==
  IF version = "stream"
  THEN \/ req[r].pc \in {"transcript", "transcriptPersist", "recipe", "save",
                          "saveInsertRecipe", "saveInsertEmbedding",
                          "saveCommit", "abandoned"}
       \/ req[r].result \in RecipePipelineEventTypes \cup RecipePipelineErrors
  ELSE req[r].bg \notin {"idle", "queued"}

\* C20: whenever the pipeline of a registration is running or has run, the
\* request has already returned, with job-created as its result: no
\* pipeline step executes before the return and the result does not come
\* from the pipeline.
C20_ReturnsBeforePipeline ==
  \A r \in Requests :
    PipelineEntered(r) =>
      /\ req[r].pc = "done"
      /\ req[r].result = "job-created"

\* C21: the rows of a search are in descending finalScore order and rows
\* of equal finalScore are in ascending recipe id order.
C21_OrderedWithTieBreak ==
  \A i \in DOMAIN search.rows : \A j \in DOMAIN search.rows :
    i < j =>
      \/ search.rows[i].finalScore > search.rows[j].finalScore
      \/ /\ search.rows[i].finalScore = search.rows[j].finalScore
         /\ search.rows[i].recipe < search.rows[j].recipe

\* C22: a row's finalScore is 0.7 x similarity + 0.3 x keywordScore (in
\* hundredths: 7 x and 3 x the tenths), and a row A comes before a row B
\* whenever 7*simA + 3*kwA > 7*simB + 3*kwB; similarity 0.9 / keyword 0.1
\* (0.66) ranks above similarity 0.5 / keyword 0.9 (0.62).
C22_HybridScore ==
  /\ \A i \in DOMAIN search.rows :
       search.rows[i].finalScore =
         7 * search.rows[i].similarity + 3 * search.rows[i].keywordScore
  /\ \A i \in DOMAIN search.rows : \A j \in DOMAIN search.rows :
       (7 * search.rows[i].similarity + 3 * search.rows[i].keywordScore
          > 7 * search.rows[j].similarity + 3 * search.rows[j].keywordScore)
       => i < j

\* a search returned the 0.9 / 0.1 recipe (0.66) and the 0.5 / 0.9 recipe
\* (0.62)
C22_Witness ==
  \E i \in DOMAIN search.rows : \E j \in DOMAIN search.rows :
    /\ search.rows[i].similarity = 9 /\ search.rows[i].keywordScore = 1
    /\ search.rows[i].finalScore = 66
    /\ search.rows[j].similarity = 5 /\ search.rows[j].keywordScore = 9
    /\ search.rows[j].finalScore = 62
    /\ i < j

\* the position in the model output of the first ingredient whose
\* normalized name is name
FirstOccurrence(raw, name) ==
  CHOOSE i \in DOMAIN raw :
    /\ transformName(raw[i].name) = name
    /\ \A j \in DOMAIN raw : transformName(raw[j].name) = name => i <= j

\* C23: the stored ingredient list holds each normalized name of the model
\* output exactly once, with the quantity of the name's first occurrence,
\* in the order of the first occurrences.
C23_IngredientsDeduplicated ==
  parseRun.pc = "stored" =>
    LET raw == parseRun.raw
        out == parseRun.stored
    IN  /\ { out[k].name : k \in DOMAIN out }
             = { transformName(raw[i].name) : i \in DOMAIN raw }
        /\ \A k \in DOMAIN out : \A l \in DOMAIN out :
             out[k].name = out[l].name => k = l
        /\ \A k \in DOMAIN out :
             out[k].quantity = raw[FirstOccurrence(raw, out[k].name)].quantity
        /\ \A k \in DOMAIN out : \A l \in DOMAIN out :
             k < l => FirstOccurrence(raw, out[k].name)
                        < FirstOccurrence(raw, out[l].name)

\* a list whose first and third names are case and whitespace variants of
\* one name with different quantities, around another name, was stored
C23_Witness ==
  /\ parseRun.pc = "stored"
  /\ Len(parseRun.raw) = 3
  /\ parseRun.raw[1].name # parseRun.raw[3].name
  /\ transformName(parseRun.raw[1].name) = transformName(parseRun.raw[3].name)
  /\ transformName(parseRun.raw[2].name) # transformName(parseRun.raw[1].name)
  /\ parseRun.raw[1].quantity # parseRun.raw[3].quantity
  /\ Len(parseRun.stored) = 2

\* the last event of a finished streaming request
LastEvent(r) == req[r].events[Len(req[r].events)]

\* the request ended with a step failure
StepFailed(r) ==
  /\ version = "stream"
  /\ req[r].pc = "done"
  /\ req[r].result \in RecipePipelineErrors

\* the structuring step failed because the model classified the input as
\* not a recipe (an output with error.reason)
Rejected(r) == StepFailed(r) /\ LastEvent(r).cause = "errorReason"

\* C24: the response to a registration rejected as not-a-recipe differs
\* from the response to a registration that failed in any other way
\* (malformed output, invocation error, transcript or save failure).
C24_RejectedDistinct ==
  \A r1 \in Requests : \A r2 \in Requests :
    (Rejected(r1) /\ StepFailed(r2) /\ ~Rejected(r2))
      => createRecipe(LastEvent(r1)) # createRecipe(LastEvent(r2))

\* C25: a registration that arrives when the source of its reference
\* exists and that source's pipeline has ended without a recipe, and that
\* gets past the external existence check, ends in the unhandled unique
\* violation of the source insert: it does not return already-exists and
\* creates no source and no job; and the reference still has no recipe.
C25_StuckSourceBlocksReingestion ==
  \A r \in Requests :
    (req[r].stuck /\ Finished(r) /\ req[r].result # "videoUnavailable") =>
      /\ req[r].error = "uniqueViolation"
      /\ req[r].result = "unhandledError"
      /\ req[r].sourceId = NoId /\ req[r].jobId = NoId
      /\ req[r].bg = "idle"
      /\ getRecipeByExternalId(req[r].externalId, "youtube-shorts") = NoId
      /\ Cardinality({ s \in sources : s.external_id = req[r].externalId }) = 1

\* a reference whose first pipeline had failed was registered again
C25_Witness ==
  \E r \in Requests : req[r].stuck /\ req[r].pc = "thrown"

\* C26: the step of processRecipeJob that marks a step as processing
\* changes the status and start timestamp of that step's row and leaves
\* every other job_steps row as it was.
C26_MarkStepFrame ==
  [][ \A r \in Requests :
        (req[r].bg = "markStep" /\ req'[r] # req[r] /\ steps' # steps) =>
          LET stepId == req[r].jobSteps[req[r].stepIdx].id
          IN  /\ \A s \in steps : s.id # stepId => s \in steps'
              /\ \A s \in steps :
                   s.id = stepId =>
                     [s EXCEPT !.status = "processing", !.started_at = TRUE]
                       \in steps'
              /\ Cardinality(steps') = Cardinality(steps) ]_vars

\* the declared step whose call is about to be made or is under way in
\* the run of a registration (0: none)
RunningStep(r) ==
  IF version = "stream"
  THEN IF req[r].pc \in {"transcript", "transcriptPersist"} THEN 1
       ELSE IF req[r].pc = "recipe" THEN 2
       ELSE IF req[r].pc \in {"save", "saveInsertRecipe",
                              "saveInsertEmbedding", "saveCommit"} THEN 3
       ELSE 0
  ELSE IF req[r].bg = "runStep" THEN req[r].stepIdx ELSE 0

SuccessEventsInOrder ==
  <<"transcriptGenerated", "recipeGenerated", "recipeSaved">>

\* C27: a step of a run is called only when exactly the steps declared
\* before it have returned, each with a success, and no step of the run has
\* failed: the run is at one step at a time, in declared order, and at none
\* after an error.
C27_StepsStrictlyInOrder ==
  \A r \in Requests :
    RunningStep(r) # 0 =>
      /\ req[r].failedIdx = 0
      /\ req[r].result = IF version = "stream" THEN None ELSE "job-created"
      /\ version = "stream" =>
           /\ EventTypes(req[r].events)
                = SubSeq(SuccessEventsInOrder, 1, RunningStep(r) - 1)
           /\ RunningStep(r) > 1 => req[r].ctx.transcript
           /\ RunningStep(r) > 2 => req[r].ctx.recipe
      /\ version = "proc" =>
           /\ \A k \in DOMAIN req[r].pipeline :
                req[r].pipeline[k]
                  = IF k < RunningStep(r) THEN "success" ELSE "skipped"
           /\ RunningStep(r) > 1 => req[r].ctx.transcript
           /\ RunningStep(r) > 2 => req[r].ctx.recipe
      /\ version = "job" => RunningStep(r) = 1

\* one run is at its last step while another run has ended with an error
\* event at its second step
C27_Witness ==
  \E r1 \in Requests : \E r2 \in Requests :
    /\ RunningStep(r1) = 3
    /\ IF version = "stream"
       THEN req[r2].result = "recipeGenerationFailed"
       ELSE req[r2].failedIdx = 2

SavedEvents(r) ==
  { req[r].events[i] : i \in { j \in DOMAIN req[r].events :
                                 req[r].events[j].type = "recipeSaved" } }

\* C29: every recipeSaved event that has been emitted carries the id of a
\* committed recipe row that has a committed embedding row.
C29_SavedAfterCommit ==
  \A r \in Requests : \A e \in SavedEvents(r) :
    /\ e.recipeId # NoId
    /\ \E rec \in recipes : rec.id = e.recipeId
    /\ \E emb \in embeddings : emb.recipe_id = e.recipeId

\* one run has emitted recipeSaved while another run's transaction failed
\* at its commit and emitted recipeSavingFailed
C29_Witness ==
  \E r1 \in Requests : \E r2 \in Requests :
    /\ SavedEvents(r1) # {}
    /\ req[r2].result = "recipeSavingFailed"
    /\ LastEvent(r2).cause = "commit"

\* processRecipePipeline has been called for the registration
\* (part_001:104-112, after createRecipeSource)
PipelineRun(r) == version = "stream" /\ req[r].sourceId # NoId

ErrorEventsInOrder ==
  <<"transcriptGenerationFailed", "recipeGenerationFailed",
    "recipeSavingFailed">>

\* C30: the events of one pipeline run are at most three; every event but
\* the last is the success event of the step at its position, and the last
\* is that step's success event or its error event: successes in declared
\* order without gap or repeat, at most one error, and it is last.
C30_EventStreamIsPrefix ==
  \A r \in Requests :
    PipelineRun(r) =>
      LET es == EventTypes(req[r].events)
          n  == Len(es)
      IN  /\ n <= Len(SuccessEventsInOrder)
          /\ \A i \in 1..n :
               IF i < n
               THEN es[i] = SuccessEventsInOrder[i]
               ELSE es[i] \in {SuccessEventsInOrder[i], ErrorEventsInOrder[i]}

\* one run has emitted all three success events and another has ended
\* with the error event of its second step after one success event
C30_Witness ==
  \E r1 \in Requests : \E r2 \in Requests :
    /\ PipelineRun(r1) /\ PipelineRun(r2)
    /\ EventTypes(req[r1].events) = SuccessEventsInOrder
    /\ EventTypes(req[r2].events)
         = <<"transcriptGenerated", "recipeGenerationFailed">>

\* the status the contract of part_006:78-83 and part_005:78-83 gives an
\* event that ends the response (0: the event does not end it)
MappedStatus(rev, type) ==
  IF type = "recipeInputValidationFailed" THEN 422
  ELSE IF type = "recipeAlreadyExists" THEN 409
  ELSE IF type = "videoUnavailable"
       THEN (IF rev = "part_005" THEN 404 ELSE 422)
  ELSE IF type \in RecipePipelineErrors THEN 500
  ELSE 0

IsPrefixOf(s, t) == Len(s) <= Len(t) /\ s = SubSeq(t, 1, Len(s))

\* C31: of the events the service has yielded for a registration, the
\* handler has passed on to the client success events only, a prefix of
\* transcriptGenerated, recipeGenerated, recipeSaved; once the service has
\* yielded a validation, conflict, unavailable or step-error event the
\* response has the mapped status, that event was the last one consumed,
\* and nothing but the events before it was passed on.
C31_HandlerForwardsSuccessOnly ==
  \A r \in Requests : \A rev \in HandlerRevisions :
    version = "stream" =>
      LET es  == req[r].events
          out == createRecipeLoop(rev, es, <<>>)
      IN  /\ IsPrefixOf(EventTypes(out.forwarded), SuccessEventsInOrder)
          /\ \A i \in DOMAIN es :
               MappedStatus(rev, es[i].type) # 0 =>
                 /\ out.status = MappedStatus(rev, es[i].type)
                 /\ i = Len(es)
                 /\ out.consumed = i
                 /\ out.forwarded = SubSeq(es, 1, i - 1)
          /\ (\A i \in DOMAIN es : MappedStatus(rev, es[i].type) = 0)
               => out.status = 200 /\ out.forwarded = es

\* one registration got one success event and then a step error, another
\* was answered with the validation status
C31_Witness ==
  \E r1 \in Requests : \E r2 \in Requests :
    /\ version = "stream"
    /\ EventTypes(req[r1].events)
         = <<"transcriptGenerated", "recipeGenerationFailed">>
    /\ createRecipeLoop("part_006", req[r1].events, <<>>).status = 500
    /\ Len(createRecipeLoop("part_006", req[r1].events, <<>>).forwarded) = 1
    /\ EventTypes(req[r2].events) = <<"recipeInputValidationFailed">>
    /\ createRecipeLoop("part_006", req[r2].events, <<>>).status = 422

\* the steps stored as failed for a job: rows of job_steps with status
\* failed, and entries of the job row's `steps` column that carry an error
FailedSteps(j) ==
  { st.id : st \in { x \in steps : x.job_id = j.id /\ x.status = "failed" } }
    \cup { k \in DOMAIN j.steps : j.steps[k] = "failure" }

\* the job's recipe transaction failed after its steps had succeeded
AfterCommitFailure(j) ==
  \E r \in Requests : req[r].jobId = j.id /\ req[r].error = "recipeTxn"

\* C32: a stored job is failed exactly when exactly one of its stored
\* steps is failed, except after a commit failure.
C32_JobAndStepFailTogether ==
  \A j \in jobs :
    ~AfterCommitFailure(j) =>
      ((j.status = "failed") <=> (Cardinality(FailedSteps(j)) = 1))

StatusValues == {"created", "processing", "completed", "failed"}

\* C33: the status stored for every job and for every step is one of
\* created, processing, completed, failed.
C33_StatusValues ==
  /\ \A j \in jobs : j.status \in StatusValues
  /\ \A st \in steps : st.status \in StatusValues

\* C34: every source has at most one job and at most one recipe.
C34_OneJobOneRecipePerSource ==
  \A s \in sources :
    /\ Cardinality({ j \in jobs : j.recipe_source_id = s.id }) <= 1
    /\ Cardinality({ rec \in recipes : rec.recipe_source_id = s.id }) <= 1

\* a source has its recipe and a second registration of the same reference
\* has ended
C34_Witness ==
  \E s \in sources : \E r \in Requests :
    /\ \E rec \in recipes : rec.recipe_source_id = s.id
    /\ req[r].externalId = s.external_id
    /\ req[r].sourceId # s.id
    /\ req[r].result # None

\* extract, structure/parse, embed
DeclaredStepTypes ==
  <<"extract_instructions", "parse_recipe", "create_embeddings">>

\* what identifies a step row and places it in its job
StepIdentity(st) ==
  [id |-> st.id, job_id |-> st.job_id, type |-> st.type, order |-> st.order]

\* C35: after every step of the program each job has exactly one step row
\* for each declared type, the i-th declared type with order i - 1 (orders
\* 0..N-1, contiguous, without duplicates); a job that has just been
\* created has all of them with status created, and a job that existed
\* before has the same step rows as before.
C35_StepsCreatedWithJob ==
  [][version = "job" =>
       \A j \in jobs' :
         LET now == { st \in steps' : st.job_id = j.id }
         IN  /\ Cardinality(now) = Len(DeclaredStepTypes)
             /\ \A i \in DOMAIN DeclaredStepTypes :
                  \E st \in now : /\ st.type = DeclaredStepTypes[i]
                                  /\ st.order = i - 1
             /\ IF \E old \in jobs : old.id = j.id
                THEN { StepIdentity(st) : st \in now }
                       = { StepIdentity(st) :
                             st \in { x \in steps : x.job_id = j.id } }
                ELSE \A st \in now : st.status = "created"]_vars

\* two jobs exist with their step rows, and the steps of one have been
\* written to by the executor
C35_Witness ==
  /\ version = "job"
  /\ Cardinality(jobs) = 2
  /\ \E st \in steps : st.status = "processing"

\* the result is the job row `job` with the step rows `rows`: one entry
\* per row and no other, in strictly ascending `order`, each with the
\* row's type and status
ResultShows(res, job, rows) ==
  /\ res.found
  /\ res.id = job.id
  /\ res.status = job.status
  /\ Len(res.steps) = Cardinality(rows)
  /\ \A i \in DOMAIN res.steps :
       \E st \in rows :
         /\ st.id = res.steps[i].id
         /\ st.type = res.steps[i].type
         /\ st.status = res.steps[i].status
         /\ \A k \in DOMAIN res.steps :
              i < k => \E later \in rows : /\ later.id = res.steps[k].id
                                           /\ st.order < later.order

\* C36: when a call of getRecipeJob completes, it has answered Not Found
\* exactly if no job row has the id; otherwise its result is the job with
\* all of its steps in ascending `order`, with the statuses stored when the
\* call returns or those stored when the call read the job row.
C36_GetJobSortedSteps ==
  [][(jobQuery.pc # "done" /\ jobQuery'.pc = "done") =>
       LET id  == jobQuery'.jobId
           res == jobQuery'.result
       IN  IF \A j \in jobs : j.id # id
           THEN ~res.found
           ELSE \/ \E j \in jobs :
                     /\ j.id = id
                     /\ ResultShows(res, j, { st \in steps : st.job_id = id })
                \/ ResultShows(res, jobQuery.job, jobQuery.seen)]_vars

\* the same of the parts that do not depend on when the rows were read:
\* not found, the steps of the job and their order
GetJobNotFoundAndOrder ==
  [][(jobQuery.pc # "done" /\ jobQuery'.pc = "done") =>
       LET id  == jobQuery'.jobId
           res == jobQuery'.result
       IN  IF \A j \in jobs : j.id # id
           THEN ~res.found
           ELSE \E j \in jobs :
                  /\ j.id = id
                  /\ ResultShows([res EXCEPT !.status = j.status], j,
                                 { st \in steps : st.job_id = id })]_vars

Searchable ==
  { rec.id : rec \in { x \in recipes :
                         \E emb \in embeddings : emb.recipe_id = x.id } }

\* C38: the rows a search returns are those of the recipes whose recipe
\* row and embedding row are committed when it runs, one row each; a
\* source without a committed recipe (pipeline running, failed or not yet
\* committed) is the source of no returned row.
C38_SearchSeesCommittedOnly ==
  [][(~search.called /\ search'.called) =>
       /\ { search'.rows[i].recipe : i \in DOMAIN search'.rows } = Searchable
       /\ Len(search'.rows) = Cardinality(Searchable)
       /\ \A r \in Requests :
            (req[r].sourceId # NoId /\ req[r].result # "recipeSaved") =>
              \A i \in DOMAIN search'.rows :
                \A rec \in recipes :
                  rec.id = search'.rows[i].recipe
                    => rec.recipe_source_id # req[r].sourceId]_vars

\* a search returned the one committed recipe; the other source's run
\* failed at its save step, so it left no recipe
C38_Witness ==
  /\ search.called
  /\ Len(search.rows) = 1
  /\ Cardinality(sources) = 2
  /\ Cardinality(recipes) = 1
  /\ \E r \in Requests : req[r].result = "recipeSavingFailed"

\* the model output carries an error reason: it has an error object
CarriesErrorReason(object) == object.error.kind = "object"

\* the output fails shape validation: null name or null instructions
FailsShape(object) == object.name.null \/ object.instructions.null

\* C39: a call of parseRecipe that has returned has failed with the error
\* reason as its message whenever the output carries an error reason,
\* whatever its other fields; has failed with the schema validation
\* message when there is no error reason and the output fails the shape;
\* and has returned a recipe only when neither holds; and the pipeline
\* goes on to the save step only with a recipe.
C39_RejectedBeforeMalformed ==
  llmCall.pc \in {"returned", "yielded"} =>
    LET object == llmCall.object
        out    == llmCall.outcome
    IN  /\ CarriesErrorReason(object) =>
             out.kind = "Error" /\ out.message = object.error.reason
        /\ (~CarriesErrorReason(object) /\ FailsShape(object)) =>
             out.kind = "Error" /\ out.message = SchemaValidationFailed
        /\ out.kind = "recipe" =>
             ~CarriesErrorReason(object) /\ ~FailsShape(object)
        /\ llmCall.pc = "yielded" =>
             (llmCall.next = "save" <=>
                ~CarriesErrorReason(object) /\ ~FailsShape(object))

Next == StreamNext \/ JobFrontNext \/ ProcessJobNext \/ ProcessorNext

Spec == Init /\ [][Next]_vars

\* the event loop runs every continuation that is ready, and every awaited
\* call settles: the program does not stop while a step can be taken
LiveSpec == Spec /\ WF_vars(Next)

====
